---- MODULE Spec2Model ----
(***************************************************************************)
(* TUIO client of tuio-rs (src/src/client.rs): how the client folds the    *)
(* OSC messages of a packet into its per-source entity maps, its frame     *)
(* counter and the calls it makes on the listener dispatcher.  TUIO codec  *)
(* (src/src/osc_encode_decode.rs): the bundles RoscEncoder builds and what *)
(* RoscDecoder reads from them.  TUIO server (src/src/server.rs): session  *)
(* ids, entity maps, frames and the bundles it delivers to its senders.    *)
(*                                                                         *)
(* An IndexMap<i32, T> is a sequence of entries with pairwise distinct     *)
(* session ids, in insertion order.  An entity is [session_id, params]:    *)
(* params stands for the tuple of the remaining arguments of a "set"       *)
(* message (class id, position, angle, velocity, ...), which the client    *)
(* only copies.                                                            *)
(***************************************************************************)
EXTENDS Integers, Sequences, FiniteSets, TLC

VARIABLES
    client,       \* the fields of Client that packet processing reads and writes
    pre,          \* history: client as it was when the last packet arrived
    packet,       \* history: the last packet handed to process_osc_packet
    result,       \* history: what process_osc_packet returned for it
    events,       \* history: the Dispatcher calls made while processing it
    arbitration,  \* history: the update_frame calls made while processing it
    codec,        \* one run of encode_*_bundle followed by decode_bundle
    trip,         \* one run of the test encoding_decoding of lib.rs
    server,       \* the fields of Server
    served,       \* history: the last call on the server and what it delivered
    motion,       \* one Cursor or Object, its last update and what it was before
    receiver,     \* the fields of UdpReceiver, its socket, its tasks and its calls
    timing,       \* current_frame and current_time of a Client, its clock and its last frame
    compared,     \* two entities and what == returned for them
    described     \* history: the session ids the server has sent a set message of

client_vars == <<client, pre, packet, result, events, arbitration>>

server_vars == <<server, served>>

vars == <<client, pre, packet, result, events, arbitration, codec, trip, server, served,
          motion, receiver, timing, compared, described>>

-----------------------------------------------------------------------------
(* Bounds of the model *)

MaxId == 2        \* session ids are 1..MaxId
MaxSets == 2      \* at most this many "set" messages in one bundle
MaxPending == 2   \* packets that would leave more pending set records are not sent

(* Program constants *)

RestartJump == 100   \* update_frame: a frame this far behind is still a late frame
SetArgs == 11        \* the argument count the client demands of every "set" message

Ids == 1..MaxId
Sources == {"A", "B"}
Params == {"p", "q"}
Addresses == {"/tuio/2Dobj", "/tuio/2Dcur", "/tuio/2Dblb"}

-----------------------------------------------------------------------------
(* IndexMap<i32, T> *)

Keys(index_map) == {index_map[i].session_id : i \in DOMAIN index_map}

SeqOfIds(index_map) == [i \in DOMAIN index_map |-> index_map[i].session_id]

IndexOf(index_map, id) == CHOOSE i \in DOMAIN index_map : index_map[i].session_id = id

Entity(id, p) == [session_id |-> id, params |-> p]

(* retain_by_ids: keeps the entries whose key is in to_keep, in order, and
   returns the removed keys in the order the entries were visited *)
retain_by_ids(index_map, to_keep) ==
    [map |-> SelectSeq(index_map, LAMBDA e : e.session_id \in to_keep),
     removed_ids |-> SeqOfIds(SelectSeq(index_map, LAMBDA e : e.session_id \notin to_keep))]

-----------------------------------------------------------------------------
(* Client *)

SourceCollection == [object_map |-> <<>>, blob_map |-> <<>>, cursor_map |-> <<>>]

NoSources == [s \in {} |-> SourceCollection]

(* Client::from_port *)
NewClient ==
    [current_frame |-> -1,
     source_name   |-> "",
     source_list   |-> NoSources,
     frame_objects |-> <<>>,
     frame_cursors |-> <<>>,
     frame_blobs   |-> <<>>]

MapField(addr) ==
    CASE addr = "/tuio/2Dobj" -> "object_map"
      [] addr = "/tuio/2Dcur" -> "cursor_map"
      [] addr = "/tuio/2Dblb" -> "blob_map"

PendingField(addr) ==
    CASE addr = "/tuio/2Dobj" -> "frame_objects"
      [] addr = "/tuio/2Dcur" -> "frame_cursors"
      [] addr = "/tuio/2Dblb" -> "frame_blobs"

(* the last argument index try_unwrap_{object,cursor,blob}_args reads *)
LastArg(addr) ==
    CASE addr = "/tuio/2Dobj" -> 10
      [] addr = "/tuio/2Dcur" -> 6
      [] addr = "/tuio/2Dblb" -> 12

(* the Dispatcher methods each profile branch calls *)
AddCall(addr) ==
    CASE addr = "/tuio/2Dobj" -> "add_object"
      [] addr = "/tuio/2Dcur" -> "add_cursor"
      [] addr = "/tuio/2Dblb" -> "add_blob"

UpdateCall(addr) ==
    CASE addr = "/tuio/2Dobj" -> "update_object"
      [] addr = "/tuio/2Dcur" -> "update_cursor"
      [] addr = "/tuio/2Dblb" -> "update_blob"

RemoveCall(addr) ==
    CASE addr = "/tuio/2Dobj" -> "remove_objects"
      [] addr = "/tuio/2Dcur" -> "remove_objects"
      [] addr = "/tuio/2Dblb" -> "remove_objects"

(* a Dispatcher call: the method, and the ids or the entity it passes *)
RemoveEvent(call, ids) == [call |-> call, ids |-> ids, entity |-> <<>>]
EntityEvent(call, e) == [call |-> call, ids |-> <<>>, entity |-> <<e>>]

(* update_frame with the restart test off by one: a frame exactly RestartJump
   behind counts as a restart *)
update_frame_restart_at_jump(current_frame, frame) ==
    IF frame > 0
    THEN IF frame >= current_frame \/ current_frame - frame >= RestartJump
         THEN [accepted |-> TRUE, current_frame |-> frame]
         ELSE [accepted |-> FALSE, current_frame |-> current_frame]
    ELSE [accepted |-> FALSE, current_frame |-> current_frame]

(* Client::update_frame: whether the frame is accepted, and current_frame after *)
update_frame(current_frame, frame) ==
    IF frame > 0
    THEN IF frame >= current_frame \/ current_frame - frame > RestartJump
         THEN [accepted |-> TRUE, current_frame |-> frame]
         ELSE [accepted |-> FALSE, current_frame |-> current_frame]
    ELSE [accepted |-> FALSE, current_frame |-> current_frame]

(* Client::set_source_name *)
set_source_name(c, name) ==
    [c EXCEPT !.source_list =
                  IF name \in DOMAIN c.source_list
                  THEN c.source_list
                  ELSE [s \in DOMAIN c.source_list \cup {name} |->
                           IF s = name THEN SourceCollection ELSE c.source_list[s]],
              !.source_name = name]

(* The run of process_osc_packet: the client, the calls made, and the result *)
Start(c) == [client |-> c, events |-> <<>>, arb |-> <<>>, result |-> "Ok"]

Err(r, e) == [r EXCEPT !.result = e]

Panic(r) == [r EXCEPT !.result = "panic"]

(* try_unwrap_source_name, then set_source_name *)
source_message(r, message) ==
    CASE message.name = "missing" -> Err(r, "MissingSourceError")
      [] message.name = "notastring" -> Err(r, "WrongArgumentTypeError")
      [] OTHER -> [r EXCEPT !.client = set_source_name(r.client, message.name)]

(* the "alive" branch: retain_by_ids on the map of the current source *)
alive_message(r, message) ==
    LET c == r.client IN
    IF c.source_name \notin DOMAIN c.source_list
    THEN Panic(r)
    ELSE LET kept == retain_by_ids(c.source_list[c.source_name][MapField(message.addr)],
                                   message.ids)
         IN [r EXCEPT !.client.source_list[c.source_name][MapField(message.addr)] = kept.map,
                      !.events = Append(@, RemoveEvent(RemoveCall(message.addr),
                                                       kept.removed_ids))]

(* the "set" branch: the length check, then try_unwrap_*_args, which reads
   args[1..LastArg] in turn and fails at the first one of the wrong type *)
set_message(r, message) ==
    IF message.len # SetArgs
    THEN Err(r, "MissingArgumentsError")
    ELSE IF message.bad # 0 /\ message.bad < message.len /\ message.bad <= LastArg(message.addr)
    THEN Err(r, "WrongArgumentTypeError")
    ELSE IF LastArg(message.addr) >= message.len
    THEN Panic(r)
    ELSE [r EXCEPT !.client[PendingField(message.addr)] =
                       Append(@, Entity(message.session_id, message.params))]

(* the loop with an occupied entry left as it is: the Update is reported, the
   values are not stored *)
RECURSIVE drain_keeps_entry(_, _, _, _)
drain_keeps_entry(index_map, pending, calls, addr) ==
    IF pending = <<>>
    THEN [map |-> index_map, events |-> calls]
    ELSE LET rec == Head(pending) IN
         IF rec.session_id \in Keys(index_map)
         THEN drain_keeps_entry(index_map,
                                Tail(pending),
                                Append(calls, EntityEvent(UpdateCall(addr), rec)),
                                addr)
         ELSE drain_keeps_entry(Append(index_map, rec),
                                Tail(pending),
                                Append(calls, EntityEvent(AddCall(addr), rec)),
                                addr)

(* the loop over frame_*.drain(..) of the "fseq" branch *)
RECURSIVE drain(_, _, _, _)
drain(index_map, pending, calls, addr) ==
    IF pending = <<>>
    THEN [map |-> index_map, events |-> calls]
    ELSE LET rec == Head(pending) IN
         IF rec.session_id \in Keys(index_map)
         THEN drain([index_map EXCEPT ![IndexOf(index_map, rec.session_id)] = rec],
                    Tail(pending),
                    Append(calls, EntityEvent(UpdateCall(addr), rec)),
                    addr)
         ELSE drain(Append(index_map, rec),
                    Tail(pending),
                    Append(calls, EntityEvent(AddCall(addr), rec)),
                    addr)

(* the "fseq" branch with a current_frame of each source: the first frame of a
   source the client holds nothing of is judged as on a fresh client *)
fseq_message_per_source(r, message) ==
    IF ~message.is_int
    THEN Err(r, "MissingArgumentsError")
    ELSE LET c == r.client
             fresh == \/ c.source_name \notin DOMAIN c.source_list
                      \/ c.source_list[c.source_name] = SourceCollection
             u == update_frame(IF fresh THEN -1 ELSE c.current_frame, message.fseq)
             r1 == [r EXCEPT !.client.current_frame = u.current_frame,
                             !.arb = Append(@, [frame |-> message.fseq,
                                                before |-> c.current_frame,
                                                accepted |-> u.accepted,
                                                after |-> u.current_frame])]
         IN IF ~u.accepted
            THEN r1
            ELSE IF c.source_name \notin DOMAIN c.source_list
            THEN Panic(r1)
            ELSE LET d == drain(c.source_list[c.source_name][MapField(message.addr)],
                                c[PendingField(message.addr)], r.events, message.addr)
                 IN [r1 EXCEPT !.client.source_list[c.source_name][MapField(message.addr)] = d.map,
                               !.client[PendingField(message.addr)] = <<>>,
                               !.events = d.events]

(* the "fseq" branch *)
fseq_message(r, message) ==
    IF ~message.is_int
    THEN Err(r, "MissingArgumentsError")
    ELSE LET c == r.client
             u == update_frame(c.current_frame, message.fseq)
             r1 == [r EXCEPT !.client.current_frame = u.current_frame,
                             !.arb = Append(@, [frame |-> message.fseq,
                                                before |-> c.current_frame,
                                                accepted |-> u.accepted,
                                                after |-> u.current_frame])]
         IN IF ~u.accepted
            THEN r1
            ELSE IF c.source_name \notin DOMAIN c.source_list
            THEN Panic(r1)
            ELSE LET d == drain(c.source_list[c.source_name][MapField(message.addr)],
                                c[PendingField(message.addr)], r.events, message.addr)
                 IN [r1 EXCEPT !.client.source_list[c.source_name][MapField(message.addr)] = d.map,
                               !.client[PendingField(message.addr)] = <<>>,
                               !.events = d.events]

(* Client::process_osc_message *)
process_osc_message(r, message) ==
    IF message.addr \notin Addresses
    THEN Err(r, "EmptyMessageError")
    ELSE CASE message.kind = "source" -> source_message(r, message)
           [] message.kind = "alive"  -> alive_message(r, message)
           [] message.kind = "set"    -> set_message(r, message)
           [] message.kind = "fseq"   -> fseq_message(r, message)
           [] message.kind = "empty"  -> Err(r, "EmptyMessageError")
           [] OTHER                   -> Err(r, "UnknownMessageTypeError")

(* Client::process_osc_packet on a bundle: the messages in order, up to the
   first one that fails *)
RECURSIVE process_bundle(_, _)
process_bundle(r, content) ==
    IF content = <<>> \/ r.result # "Ok"
    THEN r
    ELSE process_bundle(process_osc_message(r, Head(content)), Tail(content))

-----------------------------------------------------------------------------
(* OSC messages and packets, as far as the client tells them apart.
   name: the second argument of a "source" message ("missing": there is none,
   "notastring": it is no OSC string); ids: the int arguments of an "alive"
   message; len: the argument count of a "set" message, bad: the index of its
   first argument of the wrong type (0: none); is_int: whether the second
   argument of an "fseq" message is an int. *)

Msg(addr, kind, name, ids, len, bad, id, p, is_int, f) ==
    [addr |-> addr, kind |-> kind, name |-> name, ids |-> ids, len |-> len,
     bad |-> bad, session_id |-> id, params |-> p, is_int |-> is_int, fseq |-> f]

SourceMsg(addr, name) == Msg(addr, "source", name, {}, 2, 0, 0, "", FALSE, 0)
AliveMsg(addr, ids) == Msg(addr, "alive", "", ids, 1 + Cardinality(ids), 0, 0, "", FALSE, 0)
SetMsg(addr, len, id, p) == Msg(addr, "set", "", {}, len, 0, id, p, FALSE, 0)
FseqMsg(addr, f) == Msg(addr, "fseq", "", {}, 2, 0, 0, "", TRUE, f)

(* the argument count of the "set" messages RoscEncoder::encode_*_bundle builds *)
EncodedSetLen(addr) ==
    CASE addr = "/tuio/2Dobj" -> 11
      [] addr = "/tuio/2Dcur" -> 7
      [] addr = "/tuio/2Dblb" -> 13

(* the message order of RoscEncoder::encode_*_bundle: source, alive, set.., fseq *)
EncodedBundle(addr, name, ids, sets, f) ==
    <<SourceMsg(addr, name), AliveMsg(addr, ids)>> \o sets \o <<FseqMsg(addr, f)>>

(* the same messages with the alive message last, or with the source message
   after the alive message *)
AliveLastBundle(addr, name, ids, sets, f) ==
    <<SourceMsg(addr, name)>> \o sets \o <<FseqMsg(addr, f), AliveMsg(addr, ids)>>

SourceLateBundle(addr, name, ids, sets, f) ==
    <<AliveMsg(addr, ids), SourceMsg(addr, name)>> \o sets \o <<FseqMsg(addr, f)>>

BundlePacket(content) == [kind |-> "bundle", content |-> content]
MessagePacket(message) == [kind |-> "message", content |-> <<message>>]
NoPacket == [kind |-> "none", content |-> <<>>]

(* sequences of at most MaxSets set messages drawn from S, one per session id *)
SetSeqs(S) ==
    {q \in UNION {[1..k -> S] : k \in 0..MaxSets} :
        \A i, j \in DOMAIN q : i # j => q[i].session_id # q[j].session_id}

(* Client::process_osc_packet *)
process_osc_packet(c, pkt) ==
    IF pkt.kind = "message"
    THEN process_osc_message(Start(c), pkt.content[1])
    ELSE process_bundle(Start(c), pkt.content)

-----------------------------------------------------------------------------
(* The state machine: packets arrive one at a time *)

(* Server::from_osc_sender.  Times are counted in units of 10 ms.  sender_list
   is the number of senders; dropped: the server's lifetime has ended. *)
DefaultInterval == 100   \* update_interval: Duration::from_secs(1)
MinInterval == 1         \* enable_periodic_message: Duration::from_millis(10)

NewServer ==
    [sender_list |-> 1,
     source_name |-> "",
     session_id |-> -1,
     object_map |-> <<>>, object_updated |-> FALSE,
     cursor_map |-> <<>>, cursor_updated |-> FALSE,
     blob_map |-> <<>>, blob_updated |-> FALSE,
     current_frame_time |-> 0,
     last_frame_id |-> 0,
     full_update |-> FALSE,
     periodic_messaging |-> FALSE,
     update_interval |-> DefaultInterval,
     object_profiling |-> TRUE, object_update_time |-> 0,
     cursor_profiling |-> TRUE, cursor_update_time |-> 0,
     blob_profiling |-> TRUE, blob_update_time |-> 0,
     dropped |-> FALSE,
     panicked |-> FALSE]

(* the history of a server on which nothing was called yet: the call, the
   server before it (kept for the calls that deliver packets), the packets it
   delivered (each with the sender it went to), the session ids returned by create_* so far, the number of init_frame
   calls so far, and the fseq of the last bundle that commit_frame or
   send_full_messages had delivered before the call and have delivered by now
   (-2: none) *)
NoCall ==
    [call |-> "new", pre |-> NewServer, sent |-> <<>>,
     returned |-> <<>>, inits |-> 0, fseq_before |-> -2, fseq_last |-> -2,
     mutated |-> {}, emitted_at |-> [addr \in Addresses |-> 0],
     mutated_before |-> {}, emitted_before |-> [addr \in Addresses |-> 0]]

ServerInit ==
    /\ server = NewServer
    /\ served = NoCall

(* no entity was created yet *)
NoMotion == [stage |-> "none"]

MotionInit == motion = NoMotion

(* UdpReceiver::from_port: not listening, an empty ring.  No task was spawned
   and no datagram has arrived at the socket.  History: pushed is every packet
   pushed into the ring and got every packet receive() returned, in order;
   call and returned are the last call of the application and its result,
   listened and running the flag and the number of running tasks just before
   it; stopped holds from the return of disconnect() to the next connect(),
   late says that a packet was pushed meanwhile; stale are the tasks spawned
   before the last connect() that followed a disconnect(), stale_pushed says
   that one of them pushed a packet. *)
NewReceiver ==
    [listen |-> FALSE, packet_buffer |-> <<>>, tasks |-> <<>>,
     arrived |-> 0, taken |-> 0, pushed |-> <<>>,
     call |-> "new", returned |-> "()", listened |-> FALSE, running |-> 0,
     got |-> <<>>, stopped |-> FALSE, late |-> FALSE,
     stale |-> {}, stale_pushed |-> FALSE,
     undecodable |-> {}]

ReceiverInit == receiver = NewReceiver

(* Client::new as far as update_frame goes: current_frame -1, current_time 0,
   the clock at 0; no frame has arrived *)
NewTiming == [stage |-> "new", current_frame |-> -1, current_time |-> 0, now |-> 0]

TimingInit == timing = NewTiming

(* nothing was compared *)
NoComparison == [stage |-> "none"]

ComparedInit == compared = NoComparison

(* the server has sent nothing *)
DescribedInit == described = {}

(* no codec run and no test run is under way *)
NoCodec == [stage |-> "none"]
NoTrip == [stage |-> "none"]

ClientInit ==
    /\ client = NewClient
    /\ pre = NewClient
    /\ packet = NoPacket
    /\ result = "Ok"
    /\ events = <<>>
    /\ arbitration = <<>>

Init ==
    /\ ClientInit
    /\ codec = NoCodec
    /\ trip = NoTrip
    /\ ServerInit
    /\ MotionInit
    /\ ReceiverInit
    /\ TimingInit
    /\ ComparedInit
    /\ DescribedInit

(* the client after process_osc_packet(pkt), and what the call did *)
Processed(pkt) ==
    \E r \in {process_osc_packet(client, pkt)} :
        /\ Len(r.client.frame_objects) <= MaxPending
        /\ Len(r.client.frame_cursors) <= MaxPending
        /\ Len(r.client.frame_blobs) <= MaxPending
        /\ client' = r.client
        /\ result' = r.result
        /\ events' = r.events
        /\ arbitration' = r.arb
        /\ pre' = client
        /\ packet' = pkt

(* a bundle arrives; a panic ends the client *)
ProcessBundle(content) ==
    /\ result # "panic"
    /\ Processed(BundlePacket(content))
    /\ UNCHANGED <<codec, trip, server_vars, motion, receiver, timing, compared, described>>

(* a single message arrives as a packet of its own *)
ProcessMessage(message) ==
    /\ result # "panic"
    /\ Processed(MessagePacket(message))
    /\ UNCHANGED <<codec, trip, server_vars, motion, receiver, timing, compared, described>>

(* Spec: the object bundles a server named "A" sends, arriving with loss,
   duplication and reordering: every alive list over Ids with set records for
   some of the alive ids, as frames 1 and 2 (frame 1 after frame 2 is a late
   frame), and the goodbye bundle of a server that shuts down *)
ObjectSets(ids) ==
    {SetMsg("/tuio/2Dobj", EncodedSetLen("/tuio/2Dobj"), id, p) : id \in ids, p \in Params}

GoodbyeBundle(addr, name) == EncodedBundle(addr, name, {}, <<>>, -1)

ObjectBundles ==
    {GoodbyeBundle("/tuio/2Dobj", "A")}
    \cup UNION {{EncodedBundle("/tuio/2Dobj", "A", ids, sets, f) :
                    sets \in SetSeqs(ObjectSets(ids)), f \in {1, 2}} :
                ids \in SUBSET Ids}

Next == \E b \in ObjectBundles : ProcessBundle(b)

Spec == Init /\ [][Next]_vars

(* SpecFrames: bundles of the three profiles of one source with one session
   id, over frame numbers on both sides of the restart jump, and single
   messages sent as packets.  A "set" message has the argument count the
   encoder gives it or the one the client demands. *)
FrameNumbers == {-1, 0, 1, 2, 2 + RestartJump, 3 + RestartJump}

ProfileSets(addr) ==
    {<<>>} \cup {<<SetMsg(addr, len, 1, "p")>> : len \in {EncodedSetLen(addr), SetArgs}}

FrameBundles ==
    UNION {{EncodedBundle(addr, "A", ids, sets, f) :
                ids \in {{}, {1}}, sets \in ProfileSets(addr), f \in FrameNumbers} :
           addr \in Addresses}

SingleMessages ==
    {FseqMsg("/tuio/2Dobj", f) : f \in FrameNumbers}
    \cup {AliveMsg("/tuio/2Dobj", {}),
          SourceMsg("/tuio/2Dobj", "missing"),
          SourceMsg("/tuio/2Dobj", "notastring"),
          [FseqMsg("/tuio/2Dcur", 0) EXCEPT !.is_int = FALSE],
          [SetMsg("/tuio/2Dobj", SetArgs, 1, "p") EXCEPT !.bad = 3],
          Msg("/tuio/2Dobj", "empty", "", {}, 0, 0, 0, "", FALSE, 0),
          Msg("/tuio/2Dobj", "other", "", {}, 1, 0, 0, "", FALSE, 0),
          Msg("/tuio/25Dobj", "source", "A", {}, 2, 0, 0, "", FALSE, 0)}

NextFrames ==
    \/ \E b \in FrameBundles : ProcessBundle(b)
    \/ \E m \in SingleMessages : ProcessMessage(m)

SpecFrames == Init /\ [][NextFrames]_vars

(* SpecErrors: bundles of the three profiles in the encoder's message order
   whose "set" message has the argument count of any of the three profiles and
   either well-typed arguments or a wrongly typed argument 3, and single
   messages sent as packets *)
SetLens == {EncodedSetLen(addr) : addr \in Addresses}

MalformedSets(addr) ==
    {<<>>} \cup {<<[SetMsg(addr, len, 1, "p") EXCEPT !.bad = bad]>> :
                    len \in SetLens, bad \in {0, 3}}

ErrorBundles ==
    UNION {{EncodedBundle(addr, "A", ids, sets, f) :
                ids \in {{}, {1}}, sets \in MalformedSets(addr), f \in {1, 2}} :
           addr \in Addresses}

ErrorMessages == {m \in SingleMessages : m.kind = "fseq" => m.fseq \in {1, 2}}

NextErrors ==
    \/ \E b \in ErrorBundles : ProcessBundle(b)
    \/ \E m \in ErrorMessages : ProcessMessage(m)

SpecErrors == Init /\ [][NextErrors]_vars

(* SpecArbitration: bundles of two sources and two profiles, in the encoder's
   message order, over frame numbers in order, late and behind by more than
   the restart jump; an object bundle may carry a set record *)
ArbitrationFrames == {1, 2, 3, 3 + RestartJump}

ArbitrationSets(addr) ==
    {<<>>} \cup (IF addr = "/tuio/2Dobj"
                 THEN {<<SetMsg(addr, EncodedSetLen(addr), 1, p)>> : p \in Params}
                 ELSE {})

ArbitrationBundles ==
    UNION {{EncodedBundle(addr, name, ids, sets, f) :
                name \in Sources, ids \in {{}, {1}},
                sets \in ArbitrationSets(addr), f \in ArbitrationFrames} :
           addr \in {"/tuio/2Dobj", "/tuio/2Dcur"}}

NextArbitration == \E b \in ArbitrationBundles : ProcessBundle(b)

SpecArbitration == Init /\ [][NextArbitration]_vars

(* SpecSources: the object bundles of two sources that use the same session
   ids, in the encoder's message order and in the two other orders *)
SourceSets == {SetMsg("/tuio/2Dobj", EncodedSetLen("/tuio/2Dobj"), id, "p") : id \in Ids}

SourceBundles ==
    UNION {{EncodedBundle("/tuio/2Dobj", name, ids, sets, 1),
            AliveLastBundle("/tuio/2Dobj", name, ids, sets, 1),
            SourceLateBundle("/tuio/2Dobj", name, ids, sets, 1)} :
           name \in Sources, ids \in SUBSET Ids, sets \in SetSeqs(SourceSets)}

NextSources == \E b \in SourceBundles : ProcessBundle(b)

SpecSources == Init /\ [][NextSources]_vars

-----------------------------------------------------------------------------
(* RoscEncoder and RoscDecoder.  An entity of a collection is
   [session_id, params, time]: time is the frame time of its last mutation. *)

MaxTime == 2      \* frame times are 0..MaxTime

Times == 0..MaxTime
Behaviours == {"CurrentFrame", "Full"}

Stamped(id, p, t) == [session_id |-> id, params |-> p, time |-> t]

(* the "alive" message of the encoder: its int arguments in order (alive), as
   a client collects them into a HashSet (ids) *)
AliveArgsMsg(addr, id_seq) ==
    [addr |-> addr, kind |-> "alive", name |-> "",
     ids |-> {id_seq[i] : i \in DOMAIN id_seq}, len |-> 1 + Len(id_seq),
     bad |-> 0, session_id |-> 0, params |-> "", is_int |-> FALSE, fseq |-> 0,
     alive |-> id_seq]

(* the entities encode_*_bundle writes a "set" message for *)
Selected(collection, frame_time, behaviour) ==
    SelectSeq(collection,
              LAMBDA e : ~(behaviour = "CurrentFrame" /\ e.time # frame_time))

(* encode_*_bundle with the test on the entity's time left out *)
encode_bundle_all_set(addr, collection, source_name, frame_time, frame_id, behaviour) ==
    <<SourceMsg(addr, source_name), AliveArgsMsg(addr, SeqOfIds(collection))>>
    \o [i \in DOMAIN collection |->
           SetMsg(addr, EncodedSetLen(addr), collection[i].session_id, collection[i].params)]
    \o <<FseqMsg(addr, frame_id)>>

(* RoscEncoder::encode_object_bundle / encode_cursor_bundle / encode_blob_bundle *)
encode_bundle(addr, collection, source_name, frame_time, frame_id, behaviour) ==
    LET sel == Selected(collection, frame_time, behaviour) IN
    <<SourceMsg(addr, source_name), AliveArgsMsg(addr, SeqOfIds(collection))>>
    \o [i \in DOMAIN sel |->
           SetMsg(addr, EncodedSetLen(addr), sel[i].session_id, sel[i].params)]
    \o <<FseqMsg(addr, frame_id)>>

(* TuioBundle::default() *)
DefaultBundle ==
    [tuio_type |-> "Unknown", source |-> "", alive |-> <<>>,
     set |-> [kind |-> "None", records |-> <<>>], fseq |-> 0, result |-> "Ok"]

TypeOfAddr(addr) ==
    CASE addr = "/tuio/2Dobj" -> "Object"
      [] addr = "/tuio/2Dcur" -> "Cursor"
      [] addr = "/tuio/2Dblb" -> "Blob"
      [] OTHER -> "Unknown"

(* the argument count decode_bundle demands of a "set" message *)
DecodedSetLen(kind) ==
    CASE kind = "Object" -> 11
      [] kind = "Cursor" -> 7
      [] kind = "Blob" -> 13

(* decode_bundle: one message of the bundle *)
decode_message(d, message) ==
    CASE message.kind = "source" ->
            IF TypeOfAddr(message.addr) = "Unknown"
            THEN Err(d, "UnknownAddress")
            ELSE IF message.name = "missing" THEN Err(d, "MissingSource")
            ELSE IF message.name = "notastring" THEN Err(d, "WrongArgumentType")
            ELSE [d EXCEPT !.tuio_type = TypeOfAddr(message.addr),
                           !.source = message.name]
      [] message.kind = "alive" -> [d EXCEPT !.alive = message.alive]
      [] message.kind = "set" ->
            IF d.tuio_type = "Unknown"
            THEN Err(d, "IncompleteBundle")
            ELSE LET kind == IF d.set.kind = "None" THEN d.tuio_type ELSE d.set.kind IN
                 IF message.len # DecodedSetLen(kind)
                 THEN Err(d, "MissingArguments")
                 ELSE IF message.bad # 0 /\ message.bad < message.len
                 THEN Err(d, "WrongArgumentType")
                 ELSE [d EXCEPT !.set = [kind |-> kind,
                                         records |-> Append(d.set.records,
                                                            Entity(message.session_id,
                                                                   message.params))]]
      [] message.kind = "fseq" ->
            IF message.is_int
            THEN [d EXCEPT !.fseq = message.fseq]
            ELSE Err(d, "MissingArguments")
      [] message.kind = "empty" -> Err(d, "EmptyMessage")
      [] OTHER -> Err(d, "UnknownMessageType")

(* RoscDecoder::decode_bundle: the messages in order, up to the first error *)
RECURSIVE decode_messages(_, _)
decode_messages(d, content) ==
    IF content = <<>> \/ d.result # "Ok"
    THEN d
    ELSE decode_messages(decode_message(d, Head(content)), Tail(content))

decode_bundle(content) == decode_messages(DefaultBundle, content)

-----------------------------------------------------------------------------
(* SpecCodec: a collection of one profile is encoded and the bundle decoded.
   The frame time is 1; an entity was last mutated at time 0 or at time 1. *)

CodecFrameTime == 1

CodecEntities == {Stamped(id, p, t) : id \in Ids, p \in Params, t \in {0, CodecFrameTime}}

CodecInputs ==
    {[stage |-> "input", addr |-> addr, collection |-> collection,
      source_name |-> name, frame_time |-> CodecFrameTime, frame_id |-> f,
      behaviour |-> behaviour, bundle |-> <<>>, decoded |-> DefaultBundle] :
        addr \in Addresses,
        collection \in UNION {[1..k -> CodecEntities] : k \in 0..MaxSets},
        name \in Sources, f \in {0, 5}, behaviour \in Behaviours}

InitCodec ==
    /\ ClientInit
    /\ ServerInit
    /\ MotionInit
    /\ ReceiverInit
    /\ TimingInit
    /\ ComparedInit
    /\ DescribedInit
    /\ trip = NoTrip
    /\ codec \in CodecInputs

Encode ==
    /\ codec.stage = "input"
    /\ codec' = [codec EXCEPT
                    !.stage = "encoded",
                    !.bundle = encode_bundle(codec.addr, codec.collection,
                                             codec.source_name, codec.frame_time,
                                             codec.frame_id, codec.behaviour)]
    /\ UNCHANGED <<client_vars, trip, server_vars, motion, receiver, timing, compared, described>>

Decode ==
    /\ codec.stage = "encoded"
    /\ codec' = [codec EXCEPT !.stage = "decoded",
                              !.decoded = decode_bundle(codec.bundle)]
    /\ UNCHANGED <<client_vars, trip, server_vars, motion, receiver, timing, compared, described>>

NextCodec == Encode \/ Decode

SpecCodec == InitCodec /\ [][NextCodec]_vars

-----------------------------------------------------------------------------
(* SpecPermuted: the encoded bundle reaches the decoder with its messages in
   any order *)

Orders(n) == {f \in [1..n -> 1..n] : \A i, j \in 1..n : f[i] = f[j] => i = j}

Permuted(content, perm) == [i \in 1..Len(content) |-> content[perm[i]]]

DecodePermuted ==
    /\ codec.stage = "encoded"
    /\ \E perm \in Orders(Len(codec.bundle)) :
           codec' = [codec EXCEPT !.stage = "permuted",
                                  !.bundle = Permuted(codec.bundle, perm),
                                  !.decoded = decode_bundle(Permuted(codec.bundle, perm))]
    /\ UNCHANGED <<client_vars, trip, server_vars, motion, receiver, timing, compared, described>>

NextPermuted == Encode \/ DecodePermuted

SpecPermuted == InitCodec /\ [][NextPermuted]_vars

-----------------------------------------------------------------------------
(* SpecTrip: the test encoding_decoding of lib.rs.  The cursors, objects and
   blobs have the same session ids and values, all stamped with the frame
   time 0; their bundles are encoded with the behaviour CurrentFrame and
   handed to a fresh client: cursors, then objects, then blobs. *)

TripFrameTime == 0

TripInputs ==
    {[stage |-> 0, collection |-> collection, source |-> name,
      frame_time |-> TripFrameTime, frame_id |-> f, results |-> <<>>] :
        collection \in SetSeqs({Stamped(id, p, TripFrameTime) : id \in Ids, p \in Params}),
        name \in Sources, f \in {0, 1, 2}}

InitTrip ==
    /\ ClientInit
    /\ ServerInit
    /\ MotionInit
    /\ ReceiverInit
    /\ TimingInit
    /\ ComparedInit
    /\ DescribedInit
    /\ codec = NoCodec
    /\ trip \in TripInputs

TripPacket(addr) ==
    BundlePacket(encode_bundle(addr, trip.collection, trip.source, trip.frame_time,
                               trip.frame_id, "CurrentFrame"))

ProcessCursorPacket ==
    /\ trip.stage = 0
    /\ Processed(TripPacket("/tuio/2Dcur"))
    /\ trip' = [trip EXCEPT !.stage = 1, !.results = Append(@, result')]
    /\ UNCHANGED <<codec, server_vars, motion, receiver, timing, compared, described>>

ProcessObjectPacket ==
    /\ trip.stage = 1
    /\ Processed(TripPacket("/tuio/2Dobj"))
    /\ trip' = [trip EXCEPT !.stage = 2, !.results = Append(@, result')]
    /\ UNCHANGED <<codec, server_vars, motion, receiver, timing, compared, described>>

ProcessBlobPacket ==
    /\ trip.stage = 2
    /\ Processed(TripPacket("/tuio/2Dblb"))
    /\ trip' = [trip EXCEPT !.stage = 3, !.results = Append(@, result')]
    /\ UNCHANGED <<codec, server_vars, motion, receiver, timing, compared, described>>

NextTrip == ProcessCursorPacket \/ ProcessObjectPacket \/ ProcessBlobPacket

SpecTrip == InitTrip /\ [][NextTrip]_vars

-----------------------------------------------------------------------------
(* Server *)

MaxSessions == 3   \* create_* is called at most this many times
MaxSenders == 2    \* the server has at most this many senders

UpdatedField(addr) ==
    CASE addr = "/tuio/2Dobj" -> "object_updated"
      [] addr = "/tuio/2Dcur" -> "cursor_updated"
      [] addr = "/tuio/2Dblb" -> "blob_updated"

ProfilingField(addr) ==
    CASE addr = "/tuio/2Dobj" -> "object_profiling"
      [] addr = "/tuio/2Dcur" -> "cursor_profiling"
      [] addr = "/tuio/2Dblb" -> "blob_profiling"

UpdateTimeField(addr) ==
    CASE addr = "/tuio/2Dobj" -> "object_update_time"
      [] addr = "/tuio/2Dcur" -> "cursor_update_time"
      [] addr = "/tuio/2Dblb" -> "blob_update_time"

(* IndexMap::remove, which is swap_remove: the last entry takes the place of
   the removed one *)
swap_remove(index_map, id) ==
    LET i == IndexOf(index_map, id)
        n == Len(index_map)
    IN [j \in 1..(n - 1) |-> IF j = i THEN index_map[n] ELSE index_map[j]]

(* an entity of a server map: Entity::new or update at the frame time, with
   the frame id of this mutation kept beside it *)
Mutated(sv, id, p) ==
    [session_id |-> id, params |-> p, time |-> sv.current_frame_time,
     frame |-> sv.last_frame_id]

(* get_session_id handing out the least id that no live entity has *)
recycled_session_id(sv) ==
    CHOOSE id \in 0..(sv.session_id + 1) :
        /\ id \notin Keys(sv.object_map) \cup Keys(sv.cursor_map) \cup Keys(sv.blob_map)
        /\ \A less \in 0..(id - 1) :
               less \in Keys(sv.object_map) \cup Keys(sv.cursor_map) \cup Keys(sv.blob_map)

(* get_session_id: the id the next create_* returns *)
get_session_id(sv) == sv.session_id + 1

(* create_object / create_cursor / create_blob *)
create_entity(sv, addr, p) ==
    [sv EXCEPT !.session_id = get_session_id(sv),
               ![MapField(addr)] = Append(@, Mutated(sv, get_session_id(sv), p)),
               ![UpdatedField(addr)] = TRUE]

(* update_object / update_cursor / update_blob: Blob::update is todo!(), so
   the update of a live blob panics before the profile is marked *)
update_entity(sv, addr, id, p) ==
    IF id \in Keys(sv[MapField(addr)])
    THEN IF addr = "/tuio/2Dblb"
         THEN [sv EXCEPT !.panicked = TRUE]
         ELSE [sv EXCEPT ![MapField(addr)][IndexOf(sv[MapField(addr)], id)] =
                             Mutated(sv, id, p),
                         ![UpdatedField(addr)] = TRUE]
    ELSE sv

(* remove_object / remove_cursor / remove_blob *)
remove_entity(sv, addr, id) ==
    IF id \in Keys(sv[MapField(addr)])
    THEN [sv EXCEPT ![MapField(addr)] = swap_remove(@, id),
                    ![UpdatedField(addr)] = TRUE]
    ELSE sv

(* init_frame that leaves the frame id as it is *)
init_frame_keeps_id(sv, now) ==
    [sv EXCEPT !.current_frame_time = now]

(* init_frame, at the time now of the server's clock *)
init_frame(sv, now) ==
    [sv EXCEPT !.current_frame_time = now, !.last_frame_id = @ + 1]

(* Option<Duration> *)
None == [some |-> FALSE, value |-> 0]
Some(duration) == [some |-> TRUE, value |-> duration]

(* enable_periodic_message(interval) *)
enable_periodic_message(sv, interval) ==
    [sv EXCEPT !.periodic_messaging = TRUE,
               !.update_interval = IF ~interval.some THEN @
                                   ELSE IF interval.value > MinInterval
                                   THEN interval.value
                                   ELSE MinInterval]

(* build_*_bundle with force_all taken as true *)
build_bundle_forced(sv, addr, force_all) ==
    encode_bundle(addr, sv[MapField(addr)], sv.source_name, sv.current_frame_time,
                  sv.last_frame_id, "Full")

(* build_object_bundle / build_cursor_bundle / build_blob_bundle *)
build_bundle(sv, addr, force_all) ==
    encode_bundle(addr, sv[MapField(addr)], sv.source_name, sv.current_frame_time,
                  sv.last_frame_id, IF force_all THEN "Full" ELSE "CurrentFrame")

(* deliver_osc_packet: the packet goes to every sender in turn *)
deliver_osc_packet(sv, content) ==
    [i \in 1..sv.sender_list |-> [sender |-> i, content |-> content]]

(* whether commit_frame emits the profile *)
Due(sv, addr) ==
    \/ sv[UpdatedField(addr)]
    \/ /\ sv.periodic_messaging
       /\ sv[ProfilingField(addr)]
       /\ sv.current_frame_time - sv[UpdateTimeField(addr)] >= sv.update_interval

(* commit_frame with the dirty flag left set after an emission *)
commit_profile_stays_dirty(r, addr) ==
    IF Due(r.server, addr)
    THEN [server |-> [r.server EXCEPT ![UpdateTimeField(addr)] = r.server.current_frame_time],
          sent |-> r.sent \o deliver_osc_packet(r.server,
                                                build_bundle(r.server, addr,
                                                             r.server.full_update))]
    ELSE r

(* one of the three blocks of commit_frame *)
commit_profile(r, addr) ==
    IF Due(r.server, addr)
    THEN [server |-> [r.server EXCEPT ![UpdateTimeField(addr)] = r.server.current_frame_time,
                                      ![UpdatedField(addr)] = FALSE],
          sent |-> r.sent \o deliver_osc_packet(r.server,
                                                build_bundle(r.server, addr,
                                                             r.server.full_update))]
    ELSE r

(* commit_frame: objects, cursors, blobs *)
commit_frame(sv) ==
    commit_profile(commit_profile(commit_profile([server |-> sv, sent |-> <<>>],
                                                 "/tuio/2Dobj"),
                                  "/tuio/2Dcur"),
                   "/tuio/2Dblb")

(* send_full_messages building its bundles as commit_frame does *)
send_selected_messages(sv) ==
    deliver_osc_packet(sv, build_bundle(sv, "/tuio/2Dobj", sv.full_update))
    \o deliver_osc_packet(sv, build_bundle(sv, "/tuio/2Dcur", sv.full_update))
    \o deliver_osc_packet(sv, build_bundle(sv, "/tuio/2Dblb", sv.full_update))

(* send_full_messages *)
send_full_messages(sv) ==
    deliver_osc_packet(sv, build_bundle(sv, "/tuio/2Dobj", TRUE))
    \o deliver_osc_packet(sv, build_bundle(sv, "/tuio/2Dcur", TRUE))
    \o deliver_osc_packet(sv, build_bundle(sv, "/tuio/2Dblb", TRUE))

(* Drop for Server with the cursor and object bundles exchanged *)
drop_cursors_first(sv) ==
    deliver_osc_packet(sv, GoodbyeBundle("/tuio/2Dcur", sv.source_name))
    \o deliver_osc_packet(sv, GoodbyeBundle("/tuio/2Dobj", sv.source_name))
    \o deliver_osc_packet(sv, GoodbyeBundle("/tuio/2Dblb", sv.source_name))

(* Drop for Server *)
drop(sv) ==
    deliver_osc_packet(sv, GoodbyeBundle("/tuio/2Dobj", sv.source_name))
    \o deliver_osc_packet(sv, GoodbyeBundle("/tuio/2Dcur", sv.source_name))
    \o deliver_osc_packet(sv, GoodbyeBundle("/tuio/2Dblb", sv.source_name))

-----------------------------------------------------------------------------
(* SpecServer: an application configures the server, keeps up to
   MaxFrameSessions objects and cursors and runs frames.  The server's clock
   has advanced between two init_frame calls, so a frame has a later time
   than the one before.  An entity is created with the values "p" and an
   update sends the same values again. *)

MaxFrameSessions == 2   \* SpecServer calls create_* at most this many times

Tracked == {"/tuio/2Dobj", "/tuio/2Dcur"}

SessionIds == 0..(MaxSessions - 1)

(* the fseq of the bundles of a call: that of the last one *)
FseqOf(sent) == sent[Len(sent)].content[Len(sent[Len(sent)].content)].fseq

(* the calls that deliver packets *)
Delivering == {"commit_frame", "send_full_messages", "drop"}

(* the calls whose name and server before are kept in the history *)
Kept == Delivering \cup {"update_blob"}

(* the profiles a sequence of deliveries has a bundle of *)
Emitted(sent) == {sent[i].content[1].addr : i \in DOMAIN sent}

(* the call that led from server to sv, what it delivered, what create_*
   returned and the profiles it mutated; the name and the server before are
   kept of a delivering call and of the update of a live blob only; a server
   that panicked is called no more.  mutated are the profiles mutated since
   commit_frame last emitted them, emitted_at is the frame time of that
   emission. *)
Serve(name, sv, sent, returned, touched) ==
    /\ ~server.panicked
    /\ server' = sv
    /\ served' = [call |-> IF name \in Kept THEN name ELSE "call",
                  pre |-> IF name \in Kept THEN server ELSE NewServer,
                  sent |-> sent,
                  returned |-> served.returned \o returned,
                  inits |-> IF name = "init_frame" THEN served.inits + 1
                            ELSE served.inits,
                  mutated |-> IF name = "commit_frame"
                              THEN served.mutated \ Emitted(sent)
                              ELSE served.mutated \cup touched,
                  emitted_at |-> [addr \in Addresses |->
                                     IF name = "commit_frame" /\ addr \in Emitted(sent)
                                     THEN server.current_frame_time
                                     ELSE served.emitted_at[addr]],
                  mutated_before |-> IF name \in Delivering THEN served.mutated
                                     ELSE {},
                  emitted_before |-> IF name \in Delivering THEN served.emitted_at
                                     ELSE [addr \in Addresses |-> 0],
                  fseq_before |-> served.fseq_last,
                  fseq_last |-> IF name \in {"commit_frame", "send_full_messages"}
                                   /\ sent # <<>>
                                THEN FseqOf(sent) ELSE served.fseq_last]

Called(name, sv, sent, returned, touched) ==
    /\ Serve(name, sv, sent, returned, touched)
    /\ UNCHANGED <<client_vars, codec, trip, motion, receiver, timing, compared, described>>

(* the profile an update or a remove of the id mutates: none when no entity
   of the profile has the id *)
Touched(addr, id) ==
    IF id \in Keys(server[MapField(addr)]) THEN {addr} ELSE {}

AddOscSender ==
    /\ ~server.dropped
    /\ server.sender_list < MaxSenders
    /\ Called("add_osc_sender", [server EXCEPT !.sender_list = @ + 1], <<>>, <<>>, {})

EnablePeriodicMessage(interval) ==
    /\ ~server.dropped
    /\ Called("enable_periodic_message",
              enable_periodic_message(server, interval), <<>>, <<>>, {})

DisablePeriodicMessage ==
    /\ ~server.dropped
    /\ Called("disable_periodic_message",
              [server EXCEPT !.periodic_messaging = FALSE], <<>>, <<>>, {})

(* the application assigns the public field full_update *)
SetFullUpdate(b) ==
    /\ ~server.dropped
    /\ Called("full_update", [server EXCEPT !.full_update = b], <<>>, <<>>, {})

(* the application assigns the public field *_profiling *)
SetProfiling(addr, b) ==
    /\ ~server.dropped
    /\ Called("profiling", [server EXCEPT ![ProfilingField(addr)] = b], <<>>, <<>>,
              {})

Create(addr) ==
    /\ ~server.dropped
    /\ get_session_id(server) < MaxFrameSessions
    /\ Called("create", create_entity(server, addr, "p"), <<>>,
              <<[addr |-> addr, session_id |-> get_session_id(server)]>>, {addr})

Update(addr, id) ==
    /\ ~server.dropped
    /\ Called("update", update_entity(server, addr, id, "p"), <<>>, <<>>,
              Touched(addr, id))

Remove(addr, id) ==
    /\ ~server.dropped
    /\ Called("remove", remove_entity(server, addr, id), <<>>, <<>>,
              Touched(addr, id))

InitFrame(now) ==
    /\ ~server.dropped
    /\ now > server.current_frame_time
    /\ Called("init_frame", init_frame(server, now), <<>>, <<>>, {})

CommitFrame ==
    /\ ~server.dropped
    /\ Called("commit_frame", commit_frame(server).server,
              commit_frame(server).sent, <<>>, {})

SendFullMessages ==
    /\ ~server.dropped
    /\ Called("send_full_messages", server, send_full_messages(server), <<>>, {})

Drop ==
    /\ ~server.dropped
    /\ Called("drop", [server EXCEPT !.dropped = TRUE], drop(server), <<>>, {})

NextServer ==
    \/ AddOscSender
    \/ \E interval \in {None, Some(0)} : EnablePeriodicMessage(interval)
    \/ DisablePeriodicMessage
    \/ \E b \in BOOLEAN : SetFullUpdate(b)
    \/ \E b \in BOOLEAN : SetProfiling("/tuio/2Dcur", b)
    \/ \E addr \in Tracked : Create(addr)
    \/ \E addr \in Tracked, id \in SessionIds : Update(addr, id)
    \/ \E addr \in Tracked, id \in SessionIds : Remove(addr, id)
    \/ \E now \in Times : InitFrame(now)
    \/ CommitFrame
    \/ SendFullMessages
    \/ Drop

SpecServer == Init /\ [][NextServer]_vars

-----------------------------------------------------------------------------
(* SpecSessions: an application creates up to MaxSessions entities in any
   profile, updates them to the values "q", removes them and has the server
   deliver its bundles, all in the frame the server starts in. *)

CreateSession(addr) ==
    /\ get_session_id(server) < MaxSessions
    /\ Called("create", create_entity(server, addr, "p"), <<>>,
              <<[addr |-> addr, session_id |-> get_session_id(server)]>>, {addr})

UpdateSession(addr, id) ==
    /\ id <= server.session_id
    /\ Called(IF Touched(addr, id) = {"/tuio/2Dblb"} THEN "update_blob"
               ELSE "update",
              update_entity(server, addr, id, "q"), <<>>, <<>>, Touched(addr, id))

RemoveSession(addr, id) ==
    /\ id <= server.session_id
    /\ Called("remove", remove_entity(server, addr, id), <<>>, <<>>,
              Touched(addr, id))

CommitSessions ==
    /\ served.call # "commit_frame"
    /\ Called("commit_frame", commit_frame(server).server,
              commit_frame(server).sent, <<>>, {})

SendSessions ==
    /\ served.call # "send_full_messages"
    /\ Called("send_full_messages", server, send_full_messages(server), <<>>, {})

NextSessions ==
    \/ \E addr \in Addresses : CreateSession(addr)
    \/ \E addr \in Addresses, id \in SessionIds : UpdateSession(addr, id)
    \/ \E addr \in Addresses, id \in SessionIds : RemoveSession(addr, id)
    \/ CommitSessions
    \/ SendSessions

SpecSessions == Init /\ [][NextSessions]_vars

-----------------------------------------------------------------------------
(* SpecAlive: an application creates and updates objects and cursors, starts
   frames and commits them, with full_update off; described collects the
   session ids of the set messages sent. *)

SetIdsIn(sent) ==
    UNION {{sent[i].content[j].session_id :
                j \in {k \in 1..Len(sent[i].content) : sent[i].content[k].kind = "set"}} :
           i \in DOMAIN sent}

Describing(name, sv, sent, returned, touched) ==
    /\ Serve(name, sv, sent, returned, touched)
    /\ described' = described \cup SetIdsIn(sent)
    /\ UNCHANGED <<client_vars, codec, trip, motion, receiver, timing, compared>>

CreateAlive(addr) ==
    /\ get_session_id(server) < MaxFrameSessions
    /\ Describing("create", create_entity(server, addr, "p"), <<>>,
                  <<[addr |-> addr, session_id |-> get_session_id(server)]>>, {addr})

UpdateAlive(addr, id) ==
    Describing("update", update_entity(server, addr, id, "q"), <<>>, <<>>,
               Touched(addr, id))

InitFrameAlive(now) ==
    /\ now > server.current_frame_time
    /\ Describing("init_frame", init_frame(server, now), <<>>, <<>>, {})

CommitFrameAlive ==
    Describing("commit_frame", commit_frame(server).server,
               commit_frame(server).sent, <<>>, {})

NextAlive ==
    \/ \E addr \in Tracked : CreateAlive(addr)
    \/ \E addr \in Tracked, id \in SessionIds : UpdateAlive(addr, id)
    \/ \E now \in Times : InitFrameAlive(now)
    \/ CommitFrameAlive

SpecAlive == Init /\ [][NextAlive]_vars

-----------------------------------------------------------------------------
(* Senders that fail.  UdpSender::send_osc_packet returns the encoder's error
   and unwraps the result of send_to; deliver_osc_packet calls expect on what
   send_osc_packet returns.  Either failure is a panic in the middle of the
   call.  budget is the number of sends that succeed before one fails. *)

(* deliver_osc_packet: the sends that succeed *)
deliver_within(sv, content, budget) ==
    [i \in 1..(IF budget < sv.sender_list THEN budget ELSE sv.sender_list) |->
        [sender |-> i, content |-> content]]

(* one delivery of a call: r is [server, sent, budget] *)
deliver_step(r, content) ==
    IF r.server.panicked
    THEN r
    ELSE [server |-> [r.server EXCEPT !.panicked = r.budget < r.server.sender_list],
          sent |-> r.sent \o deliver_within(r.server, content, r.budget),
          budget |-> IF r.budget < r.server.sender_list THEN 0
                     ELSE r.budget - r.server.sender_list]

(* one profile of commit_frame: the fields are assigned after the delivery *)
commit_profile_within(r, addr) ==
    IF r.server.panicked \/ ~Due(r.server, addr)
    THEN r
    ELSE LET d == deliver_step(r, build_bundle(r.server, addr, r.server.full_update)) IN
         IF d.server.panicked
         THEN d
         ELSE [d EXCEPT !.server[UpdateTimeField(addr)] = r.server.current_frame_time,
                        !.server[UpdatedField(addr)] = FALSE]

commit_frame_within(sv, budget) ==
    commit_profile_within(
        commit_profile_within(
            commit_profile_within([server |-> sv, sent |-> <<>>, budget |-> budget],
                                  "/tuio/2Dobj"),
            "/tuio/2Dcur"),
        "/tuio/2Dblb")

send_full_messages_within(sv, budget) ==
    deliver_step(
        deliver_step(
            deliver_step([server |-> sv, sent |-> <<>>, budget |-> budget],
                         build_bundle(sv, "/tuio/2Dobj", TRUE)),
            build_bundle(sv, "/tuio/2Dcur", TRUE)),
        build_bundle(sv, "/tuio/2Dblb", TRUE))

drop_within(sv, budget) ==
    deliver_step(
        deliver_step(
            deliver_step([server |-> [sv EXCEPT !.dropped = TRUE], sent |-> <<>>,
                          budget |-> budget],
                         GoodbyeBundle("/tuio/2Dobj", sv.source_name)),
            GoodbyeBundle("/tuio/2Dcur", sv.source_name)),
        GoodbyeBundle("/tuio/2Dblb", sv.source_name))

(* SpecSenders: an application with up to MaxSenders senders creates and
   removes objects and cursors, commits, sends full messages and drops the
   server, while any send of a call may be the first that fails. *)
Budgets == 0..(3 * MaxSenders)

CommitWithin(budget) ==
    /\ ~server.dropped
    /\ Called("commit_frame", commit_frame_within(server, budget).server,
              commit_frame_within(server, budget).sent, <<>>, {})

SendFullWithin(budget) ==
    /\ ~server.dropped
    /\ Called("send_full_messages", send_full_messages_within(server, budget).server,
              send_full_messages_within(server, budget).sent, <<>>, {})

DropWithin(budget) ==
    /\ ~server.dropped
    /\ Called("drop", drop_within(server, budget).server,
              drop_within(server, budget).sent, <<>>, {})

NextSenders ==
    \/ AddOscSender
    \/ \E addr \in Tracked : Create(addr)
    \/ \E addr \in Tracked, id \in SessionIds : Remove(addr, id)
    \/ \E now \in Times : InitFrame(now)
    \/ \E budget \in Budgets : CommitWithin(budget)
    \/ \E budget \in Budgets : SendFullWithin(budget)
    \/ \E budget \in Budgets : DropWithin(budget)

SpecSenders == Init /\ [][NextSenders]_vars

-----------------------------------------------------------------------------
(* Cursor and Object: the motion an update derives.  An f32 is a fixed-point
   number of thousandths, and a division rounds towards zero; a Duration is a
   number of milliseconds, a position 1000 is the coordinate 1.0, an angle is
   in milliradians, a rotation speed in thousandths of a turn per second. *)

Unit == 1000     \* the fixed-point one; also the milliseconds of a second
TwoPi == 6283    \* 2. * PI in milliradians

(* a / b of f32 *)
Quot(a, b) ==
    IF (a >= 0) = (b > 0) THEN (IF a >= 0 THEN a ELSE -a) \div (IF b > 0 THEN b ELSE -b)
    ELSE -((IF a >= 0 THEN a ELSE -a) \div (IF b > 0 THEN b ELSE -b))

(* f32::sqrt: the largest root in low..high whose square is at most n *)
RECURSIVE Root(_, _, _)
Root(n, low, high) ==
    IF low >= high THEN low
    ELSE LET mid == (low + high + 1) \div 2
         IN IF mid <= n \div mid THEN Root(n, mid, high) ELSE Root(n, low, mid - 1)

sqrt(n) == Root(n, 0, n)

(* Point::distance_from *)
distance_from(point, other) ==
    sqrt((point.x - other.x) * (point.x - other.x)
         + (point.y - other.y) * (point.y - other.y))


(* The f32 values that are not finite: what a division by 0. yields *)
Infinity == Unit * Unit * Unit
NaN == Infinity + 1

is_finite(x) == x \notin {Infinity, -Infinity, NaN}

(* a - b of f32 *)
Minus(a, b) ==
    IF a = NaN \/ b = NaN THEN NaN
    ELSE IF ~is_finite(a) THEN (IF a = b THEN NaN ELSE a)
    ELSE IF ~is_finite(b) THEN -b
    ELSE a - b

(* a > 0f32 and a < 0f32: both false of a NaN *)
Positive(a) == a # NaN /\ a > 0
Negative(a) == a # NaN /\ a < 0

(* x / delta_time, with delta_time = (time - self.time).as_secs_f32(): an
   f32 division, which yields NaN or an infinity when delta_time is 0. *)
PerSecond(x, delta_ms) ==
    IF x = NaN THEN NaN
    ELSE IF delta_ms = 0
         THEN (IF x = 0 THEN NaN ELSE IF x > 0 THEN Infinity ELSE -Infinity)
    ELSE IF ~is_finite(x) THEN x
    ELSE Quot(x * Unit, delta_ms)

(* Velocity::get_speed *)
get_speed(velocity) ==
    IF velocity.x = NaN \/ velocity.y = NaN THEN NaN
    ELSE IF ~is_finite(velocity.x) \/ ~is_finite(velocity.y) THEN Infinity
    ELSE sqrt(velocity.x * velocity.x + velocity.y * velocity.y)

(* Cursor::new *)
Cursor_new(time, position) ==
    [time |-> time, path |-> <<position>>, velocity |-> [x |-> 0, y |-> 0],
     acceleration |-> 0, state |-> "Added"]

(* Object::new *)
Object_new(time, position, angle) ==
    [time |-> time, position |-> position, velocity |-> [x |-> 0, y |-> 0],
     acceleration |-> 0, angle |-> angle, rotation_speed |-> 0,
     rotation_acceleration |-> 0]

(* Cursor::update *)
Cursor_update(cursor, time, position) ==
    LET delta_time == time - cursor.time
        last_position == cursor.path[Len(cursor.path)]
        last_speed == get_speed(cursor.velocity)
        speed == PerSecond(distance_from(position, last_position), delta_time)
        acceleration == PerSecond(Minus(speed, last_speed), delta_time)
    IN [time |-> time,
        path |-> Append(cursor.path, position),
        velocity |-> [x |-> PerSecond(position.x - last_position.x, delta_time),
                      y |-> PerSecond(position.y - last_position.y, delta_time)],
        acceleration |-> acceleration,
        state |-> IF Positive(acceleration) THEN "Accelerating"
                  ELSE IF Negative(acceleration) THEN "Decelerating" ELSE "Stopped"]

(* Object::update: no assignment to self.angle *)
Object_update(object, time, position, angle) ==
    LET delta_time == time - object.time
        last_speed == get_speed(object.velocity)
        speed == PerSecond(distance_from(position, object.position), delta_time)
        rotation_speed == PerSecond(Quot((angle - object.angle) * Unit, TwoPi), delta_time)
    IN [time |-> time,
        position |-> position,
        velocity |-> [x |-> PerSecond(position.x - object.position.x, delta_time),
                      y |-> PerSecond(position.y - object.position.y, delta_time)],
        acceleration |-> PerSecond(Minus(speed, last_speed), delta_time),
        angle |-> object.angle,
        rotation_speed |-> rotation_speed,
        rotation_acceleration |-> PerSecond(Minus(rotation_speed,
                                                  object.rotation_speed),
                                            delta_time)]

-----------------------------------------------------------------------------
(* SpecMotion: a cursor or an object is created at time 0 and updated at
   later times *)

Coordinates == {0, 500, 1000}
Positions == [x : Coordinates, y : Coordinates]
Angles == {0, 1571}              \* 0 and 90 degrees
UpdateTimes == {500, 1000, 2000}

Moved(kind, entity, time, position, angle) ==
    /\ motion' = [stage |-> "updated", kind |-> kind, entity |-> entity,
                  before |-> motion.entity,
                  input |-> [time |-> time, position |-> position, angle |-> angle]]
    /\ UNCHANGED <<client_vars, codec, trip, server_vars, receiver, timing, compared, described>>

NewCursor(position) ==
    /\ motion.stage = "none"
    /\ motion' = [stage |-> "new", kind |-> "cursor",
                  entity |-> Cursor_new(0, position)]
    /\ UNCHANGED <<client_vars, codec, trip, server_vars, receiver, timing, compared, described>>

NewObject(position, angle) ==
    /\ motion.stage = "none"
    /\ motion' = [stage |-> "new", kind |-> "object",
                  entity |-> Object_new(0, position, angle)]
    /\ UNCHANGED <<client_vars, codec, trip, server_vars, receiver, timing, compared, described>>

UpdateCursor(time, position) ==
    /\ motion.stage # "none" /\ motion.kind = "cursor"
    /\ time > motion.entity.time
    /\ Moved("cursor", Cursor_update(motion.entity, time, position), time, position, 0)

UpdateObject(time, position, angle) ==
    /\ motion.stage # "none" /\ motion.kind = "object"
    /\ time > motion.entity.time
    /\ Moved("object", Object_update(motion.entity, time, position, angle),
             time, position, angle)

NextMotion ==
    \/ \E position \in Positions : NewCursor(position)
    \/ \E position \in Positions, angle \in Angles : NewObject(position, angle)
    \/ \E time \in UpdateTimes, position \in Positions : UpdateCursor(time, position)
    \/ \E time \in UpdateTimes, position \in Positions, angle \in Angles :
           UpdateObject(time, position, angle)

SpecMotion == Init /\ [][NextMotion]_vars

-----------------------------------------------------------------------------
(* SpecInFrame: the server creates and updates one cursor or object with its
   current_frame_time, which only init_frame advances: an update in the frame
   of the creation, or a second update in one frame, has a delta_time of 0. *)

MaxPath == 2
FrameTimes == {500, 1000}

InFrame(kind, entity, time, position, angle) ==
    /\ motion' = [stage |-> "updated", kind |-> kind, entity |-> entity,
                  before |-> motion.entity,
                  input |-> [time |-> time, position |-> position, angle |-> angle],
                  current_frame_time |-> time, updates |-> motion.updates + 1]
    /\ UNCHANGED <<client_vars, codec, trip, server_vars, receiver, timing, compared, described>>

(* Server::create_cursor *)
CreateCursorInFrame(position) ==
    /\ motion.stage = "none"
    /\ motion' = [stage |-> "new", kind |-> "cursor",
                  entity |-> Cursor_new(0, position),
                  current_frame_time |-> 0, updates |-> 0]
    /\ UNCHANGED <<client_vars, codec, trip, server_vars, receiver, timing, compared, described>>

(* Server::create_object *)
CreateObjectInFrame(position, angle) ==
    /\ motion.stage = "none"
    /\ motion' = [stage |-> "new", kind |-> "object",
                  entity |-> Object_new(0, position, angle),
                  current_frame_time |-> 0, updates |-> 0]
    /\ UNCHANGED <<client_vars, codec, trip, server_vars, receiver, timing, compared, described>>

(* Server::init_frame: self.current_frame_time = self.instant.elapsed() *)
InitFrameInFrame(now) ==
    /\ motion.stage # "none"
    /\ now > motion.current_frame_time
    /\ motion' = [motion EXCEPT !.stage = "frame", !.current_frame_time = now]
    /\ UNCHANGED <<client_vars, codec, trip, server_vars, receiver, timing, compared, described>>

(* Server::update_cursor *)
UpdateCursorInFrame(position) ==
    /\ motion.stage # "none" /\ motion.kind = "cursor"
    /\ motion.updates < MaxPath
    /\ InFrame("cursor",
               Cursor_update(motion.entity, motion.current_frame_time, position),
               motion.current_frame_time, position, 0)

(* Server::update_object *)
UpdateObjectInFrame(position, angle) ==
    /\ motion.stage # "none" /\ motion.kind = "object"
    /\ motion.updates < MaxPath
    /\ InFrame("object",
               Object_update(motion.entity, motion.current_frame_time, position, angle),
               motion.current_frame_time, position, angle)

NextInFrame ==
    \/ \E position \in Positions : CreateCursorInFrame(position)
    \/ \E position \in Positions, angle \in Angles : CreateObjectInFrame(position, angle)
    \/ \E now \in FrameTimes : InitFrameInFrame(now)
    \/ \E position \in Positions : UpdateCursorInFrame(position)
    \/ \E position \in Positions, angle \in Angles : UpdateObjectInFrame(position, angle)

SpecInFrame == Init /\ [][NextInFrame]_vars

-----------------------------------------------------------------------------
(* Client::update_frame and current_time.  Times are milliseconds since the
   client was built; instant.elapsed() is the clock. *)

(* current_time after update_frame(frame) at the time now *)
update_time(current_frame, current_time, frame, now) ==
    IF frame > 0 /\ frame > current_frame THEN now ELSE current_time

(* SpecTiming: frames arrive 50 or 150 ms after one another, until the clock
   has passed MaxClock *)
MaxClock == 400

Elapses == {50, 150}

FrameAt(frame, elapsed) ==
    /\ timing.now < MaxClock
    /\ timing' = [stage |-> "frame",
                  current_frame |-> update_frame(timing.current_frame, frame).current_frame,
                  current_time |-> update_time(timing.current_frame, timing.current_time,
                                               frame, timing.now + elapsed),
                  now |-> timing.now + elapsed,
                  frame |-> frame,
                  accepted |-> update_frame(timing.current_frame, frame).accepted,
                  before |-> [current_frame |-> timing.current_frame,
                              current_time |-> timing.current_time]]
    /\ UNCHANGED <<client_vars, codec, trip, server_vars, motion, receiver, compared, described>>

NextTiming == \E frame \in FrameNumbers, elapsed \in Elapses : FrameAt(frame, elapsed)

SpecTiming == Init /\ [][NextTiming]_vars

-----------------------------------------------------------------------------
(* UdpReceiver.  The datagrams that arrive at the socket are numbered 1, 2, ..
   in arrival order and all decode; recv_from hands each datagram to one
   caller.  A task is the thread connect() spawns: pc is "head" (at the loop
   head), "recv" (blocked in recv_from), "push" (holding a decoded packet,
   about to lock the ring) or "done" (the thread has ended). *)

Capacity == 16     \* ConstGenericRingBuffer<OscPacket, 16>

NewTask == [pc |-> "head", packet |-> 0]

Running(r) == {t \in DOMAIN r.tasks : r.tasks[t].pc \notin {"done", "panicked"}}

(* an application call returned: the history of the call *)
ReceiverCall(r, name) ==
    [r EXCEPT !.call = name, !.returned = "()", !.listened = receiver.listen,
              !.running = Cardinality(Running(receiver)),
              !.stale = IF name = "connect" /\ ~receiver.listen
                        THEN DOMAIN receiver.tasks ELSE @]

(* RingBufferWrite::push: a full ring drops its oldest element *)
push(buffer, value) ==
    IF Len(buffer) = Capacity
    THEN Append(Tail(buffer), value)
    ELSE Append(buffer, value)

(* UdpReceiver::connect: sets the flag and spawns a thread, whatever the flag was *)
connect(r) ==
    [r EXCEPT !.listen = TRUE, !.tasks = Append(@, NewTask),
              !.stopped = FALSE, !.late = FALSE]

(* UdpReceiver::disconnect: clears the flag and returns *)
disconnect(r) == [r EXCEPT !.listen = FALSE, !.stopped = TRUE]

(* UdpReceiver::receive: drains the ring under the lock *)
receive(r) == [r EXCEPT !.got = @ \o r.packet_buffer, !.packet_buffer = <<>>]

(* the thread at the loop head: it ends when the flag is clear *)
loop_head(r, t) ==
    [r EXCEPT !.tasks[t].pc = IF r.listen THEN "recv" ELSE "done", !.call = "task"]

(* recv_from returns the next datagram and decode_udp(..).unwrap() decodes
   it: the unwrap of an Err panics, which ends the thread *)
recv_from(r, t) ==
    [r EXCEPT !.taken = @ + 1,
              !.tasks[t] = IF r.taken + 1 \in r.undecodable
                           THEN [pc |-> "panicked", packet |-> 0]
                           ELSE [pc |-> "push", packet |-> r.taken + 1],
              !.call = "task"]

(* packet_buffer.lock().unwrap().push(packet), then back to the loop head *)
locked_push(r, t) ==
    [r EXCEPT !.packet_buffer = push(@, r.tasks[t].packet),
              !.pushed = Append(@, r.tasks[t].packet),
              !.late = @ \/ r.stopped,
              !.stale_pushed = @ \/ t \in r.stale,
              !.tasks[t] = NewTask,
              !.call = "task"]

Received(r) ==
    /\ receiver' = r
    /\ UNCHANGED <<client_vars, codec, trip, server_vars, motion, timing, compared, described>>

(* SpecReceiver: an application connects up to MaxTasks times, disconnects
   and receives in any order, while up to MaxArrivals datagrams arrive and
   the spawned threads run in any interleaving. *)
MaxTasks == 2
MaxArrivals == 3

Connect ==
    /\ Len(receiver.tasks) < MaxTasks
    /\ Received(ReceiverCall(connect(receiver), "connect"))

Disconnect == Received(ReceiverCall(disconnect(receiver), "disconnect"))

Receive == Received(ReceiverCall(receive(receiver), "receive"))

Arrive ==
    /\ receiver.arrived < MaxArrivals
    /\ Received([receiver EXCEPT !.arrived = @ + 1, !.call = "arrive"])

TaskHead(t) ==
    /\ receiver.tasks[t].pc = "head"
    /\ Received(loop_head(receiver, t))

TaskRecv(t) ==
    /\ receiver.tasks[t].pc = "recv"
    /\ receiver.taken < receiver.arrived
    /\ Received(recv_from(receiver, t))

TaskPush(t) ==
    /\ receiver.tasks[t].pc = "push"
    /\ Received(locked_push(receiver, t))

NextReceiver ==
    \/ Connect
    \/ Disconnect
    \/ Receive
    \/ Arrive
    \/ \E t \in DOMAIN receiver.tasks : TaskHead(t)
    \/ \E t \in DOMAIN receiver.tasks : TaskRecv(t)
    \/ \E t \in DOMAIN receiver.tasks : TaskPush(t)

SpecReceiver == Init /\ [][NextReceiver]_vars

(* SpecRing: the application connects once and receives at any time, while a
   burst of up to MaxBurst datagrams arrives. *)
MaxBurst == 17

ConnectOnce ==
    /\ receiver.tasks = <<>>
    /\ Received(ReceiverCall(connect(receiver), "connect"))

ArriveInBurst ==
    /\ receiver.arrived < MaxBurst
    /\ Received([receiver EXCEPT !.arrived = @ + 1, !.call = "arrive"])

NextRing ==
    \/ ConnectOnce
    \/ Receive
    \/ ArriveInBurst
    \/ \E t \in DOMAIN receiver.tasks : TaskHead(t)
    \/ \E t \in DOMAIN receiver.tasks : TaskRecv(t)
    \/ \E t \in DOMAIN receiver.tasks : TaskPush(t)

SpecRing == Init /\ [][NextRing]_vars

(* SpecDecode: the application connects once and receives at any time, while
   up to MaxArrivals datagrams arrive, each one a well-formed OSC packet or
   bytes that decode_udp rejects. *)
ArriveBytes(decodable) ==
    /\ receiver.arrived < MaxArrivals
    /\ Received([receiver EXCEPT !.arrived = @ + 1, !.call = "arrive",
                                 !.undecodable = IF decodable THEN @
                                                 ELSE @ \cup {receiver.arrived + 1}])

NextDecode ==
    \/ ConnectOnce
    \/ Receive
    \/ \E decodable \in BOOLEAN : ArriveBytes(decodable)
    \/ \E t \in DOMAIN receiver.tasks : TaskHead(t)
    \/ \E t \in DOMAIN receiver.tasks : TaskRecv(t)
    \/ \E t \in DOMAIN receiver.tasks : TaskPush(t)

SpecDecode == Init /\ [][NextDecode]_vars

-----------------------------------------------------------------------------
(* PartialEq of Cursor, Object and Blob.  An entity is the record of the
   fields its eq reads; x and y are the getters' values. *)

(* impl PartialEq for Cursor *)
Cursor_eq(self, other) ==
    /\ self.session_id = other.session_id
    /\ self.x = other.x
    /\ self.x = other.y
    /\ self.velocity = other.velocity
    /\ self.acceleration = other.acceleration

(* impl PartialEq for Object *)
Object_eq(self, other) ==
    /\ self.session_id = other.session_id
    /\ self.class_id = other.class_id
    /\ self.x = other.x
    /\ self.x = other.y
    /\ self.angle = other.angle
    /\ self.velocity = other.velocity
    /\ self.rotation_speed = other.rotation_speed
    /\ self.acceleration = other.acceleration
    /\ self.rotation_acceleration = other.rotation_acceleration

(* impl PartialEq for Blob *)
Blob_eq(self, other) ==
    /\ self.session_id = other.session_id
    /\ self.x = other.x
    /\ self.x = other.y
    /\ self.angle = other.angle
    /\ self.velocity = other.velocity
    /\ self.angular_speed = other.angular_speed
    /\ self.acceleration = other.acceleration
    /\ self.angular_acceleration = other.angular_acceleration
    /\ self.width = other.width
    /\ self.height = other.height
    /\ self.area = other.area

eq(kind, self, other) ==
    IF kind = "cursor" THEN Cursor_eq(self, other)
    ELSE IF kind = "object" THEN Object_eq(self, other)
    ELSE Blob_eq(self, other)

(* SpecEquality: two cursors, two objects or two blobs are compared, both
   ways round and each with itself. *)
Halves == {0, 500}
Velocities == {[x |-> 0, y |-> 0], [x |-> 1000, y |-> 0]}

ComparedCursors ==
    [session_id : {0, 1}, x : Halves, y : Halves, velocity : Velocities,
     acceleration : {0}]

ComparedObjects ==
    [session_id : {0}, class_id : {0, 1}, x : Halves, y : Halves,
     angle : Angles, velocity : {[x |-> 0, y |-> 0]}, rotation_speed : {0},
     acceleration : {0}, rotation_acceleration : {0}]

ComparedBlobs ==
    [session_id : {0}, x : Halves, y : Halves, angle : {0},
     velocity : {[x |-> 0, y |-> 0]}, angular_speed : {0}, acceleration : {0},
     angular_acceleration : {0}, width : {300, 500}, height : {300},
     area : {90}]

Compare(kind, a, b) ==
    /\ compared.stage = "none"
    /\ compared' = [stage |-> "compared", kind |-> kind, a |-> a, b |-> b,
                    a_eq_b |-> eq(kind, a, b), b_eq_a |-> eq(kind, b, a),
                    a_eq_a |-> eq(kind, a, a)]
    /\ UNCHANGED <<client_vars, codec, trip, server_vars, motion, receiver, timing, described>>

NextEquality ==
    \/ \E a, b \in ComparedCursors : Compare("cursor", a, b)
    \/ \E a, b \in ComparedObjects : Compare("object", a, b)
    \/ \E a, b \in ComparedBlobs : Compare("blob", a, b)

SpecEquality == Init /\ [][NextEquality]_vars

-----------------------------------------------------------------------------
(* What the last packet was, read off the history variables *)

IsBundle == packet.kind = "bundle"

MessagesOf(kind) == SelectSeq(packet.content, LAMBDA m : m.kind = kind)

(* the message order of the encoder: source first, alive second, fseq last *)
EncoderOrder ==
    /\ IsBundle
    /\ Len(packet.content) >= 3
    /\ packet.content[1].kind = "source"
    /\ packet.content[2].kind = "alive"
    /\ packet.content[Len(packet.content)].kind = "fseq"
    /\ Len(MessagesOf("source")) = 1
    /\ Len(MessagesOf("alive")) = 1
    /\ Len(MessagesOf("fseq")) = 1

FrameAddr == packet.content[1].addr
FrameSource == MessagesOf("source")[1].name
FrameAlive == MessagesOf("alive")[1].ids
FrameSets == [i \in DOMAIN MessagesOf("set") |->
                 Entity(MessagesOf("set")[i].session_id, MessagesOf("set")[i].params)]

(* the packet was processed to its end and its one fseq was accepted / rejected *)
FrameAccepted == result = "Ok" /\ Len(arbitration) = 1 /\ arbitration[1].accepted
FrameRejected == result = "Ok" /\ Len(arbitration) = 1 /\ ~arbitration[1].accepted

MapOf(c, name, addr) ==
    IF name \in DOMAIN c.source_list THEN c.source_list[name][MapField(addr)] ELSE <<>>

PreMap == MapOf(pre, FrameSource, FrameAddr)
PostMap == MapOf(client, FrameSource, FrameAddr)

-----------------------------------------------------------------------------
(* Frame arbitration *)

\* C1: every frame whose fseq f is >= 0 and >= current_frame is accepted, and
\* current_frame becomes f (so also a first frame with fseq 0).
C1_InOrderFrameAccepted ==
    \A i \in DOMAIN arbitration :
        LET a == arbitration[i] IN
        (a.frame >= 0 /\ a.frame >= a.before) => (a.accepted /\ a.after = a.frame)

\* C2: a frame with a negative fseq, and a late frame (0 <= f < current_frame
\* and current_frame - f <= 100), is rejected; a rejection leaves
\* current_frame as it was.
C2_LateFrameRejected ==
    /\ \A i \in DOMAIN arbitration :
        LET a == arbitration[i] IN
        /\ (a.frame < 0 \/ (0 <= a.frame /\ a.frame < a.before
                            /\ a.before - a.frame <= RestartJump))
               => ~a.accepted
        /\ ~a.accepted => a.after = a.before
    /\ (Len(arbitration) = 1 /\ ~arbitration[1].accepted)
           => client.current_frame = pre.current_frame

\* a frame exactly RestartJump behind current_frame was rejected
C2_Witness ==
    /\ Len(arbitration) = 1
    /\ arbitration[1].frame > 0
    /\ arbitration[1].before - arbitration[1].frame = RestartJump
    /\ ~arbitration[1].accepted
    /\ client.current_frame = arbitration[1].before

\* C4: a frame whose fseq f >= 0 is more than 100 below current_frame is
\* accepted as a restart, and current_frame becomes f.
C4_RestartAccepted ==
    \A i \in DOMAIN arbitration :
        LET a == arbitration[i] IN
        (a.frame >= 0 /\ a.before - a.frame > RestartJump)
            => (a.accepted /\ a.after = a.frame)

-----------------------------------------------------------------------------
(* The calls of the last packet, by kind *)

IsRemove(e) == e.entity = <<>>
IsNew(e) == e.call \in {"add_object", "add_cursor", "add_blob"}
IsUpdate(e) == e.call \in {"update_object", "update_cursor", "update_blob"}

EntityEvents == SelectSeq(events, LAMBDA e : ~IsRemove(e))

RECURSIVE ConcatIds(_)
ConcatIds(evs) == IF evs = <<>> THEN <<>> ELSE Head(evs).ids \o ConcatIds(Tail(evs))

(* the ids reported removed, in the order reported *)
RemovedIds == ConcatIds(SelectSeq(events, IsRemove))

Range(q) == {q[i] : i \in DOMAIN q}

NewIds == {e.entity[1].session_id : e \in {x \in Range(events) : IsNew(x)}}

(* the listener method each profile has for removals, additions and updates *)
RemoveCallOf(addr) ==
    CASE addr = "/tuio/2Dobj" -> "remove_objects"
      [] addr = "/tuio/2Dcur" -> "remove_cursors"
      [] addr = "/tuio/2Dblb" -> "remove_blobs"

-----------------------------------------------------------------------------
(* Frames and the entity maps *)

\* C3: a bundle whose fseq is rejected changes nothing: no New, Update or
\* Remove is reported for it and every entity map holds the entries it held
\* before the bundle.
C3_RejectedFrameChangesNothing ==
    (IsBundle /\ FrameRejected) =>
        /\ \A i \in DOMAIN events : events[i].ids = <<>> /\ events[i].entity = <<>>
        /\ \A s \in DOMAIN pre.source_list : client.source_list[s] = pre.source_list[s]
        /\ \A s \in DOMAIN client.source_list \ DOMAIN pre.source_list :
               client.source_list[s] = SourceCollection

\* C5: after an accepted frame of source S and profile P with alive list A
\* the session ids in the map of (S, P) are exactly A.  Stated for the frames
\* that tell the client all of A: every alive id is in the map already or has
\* a set record in the frame.
C5_MapEqualsAlive ==
    (EncoderOrder /\ FrameAccepted
        /\ FrameAlive \subseteq Keys(PreMap) \cup Keys(FrameSets))
    => Keys(PostMap) = FrameAlive

\* C6: the ids of the map of (S, P) that the alive list of an accepted frame
\* omits are each reported once as a Remove of profile P, and no Remove is
\* reported for another id or through another profile's method.
C6_RemovedOncePerProfile ==
    (EncoderOrder /\ FrameAccepted) =>
        /\ \A id \in Keys(PreMap) \ FrameAlive :
               Cardinality({i \in DOMAIN RemovedIds : RemovedIds[i] = id}) = 1
        /\ Range(RemovedIds) \subseteq Keys(PreMap) \ FrameAlive
        /\ \A i \in DOMAIN events :
               (IsRemove(events[i]) /\ events[i].ids # <<>>)
                   => events[i].call = RemoveCallOf(FrameAddr)

\* C7: each set record of an accepted frame, in bundle order, replaces the
\* entry its session id has in the map when the record is applied and is
\* reported as an Update, or else is inserted (at the end of the map) and
\* reported as a New.
C7_SetRecordApplied ==
    (EncoderOrder /\ FrameAccepted) =>
        LET E == EntityEvents
            R == FrameSets
            k == Len(E) - Len(R)    \* the calls made before the first record's
            survived == Keys(PreMap) \cap FrameAlive
            held(n) == survived \cup {E[j].entity[1].session_id : j \in 1..(n - 1)}
            added == SelectSeq(E, IsNew)
        IN /\ k >= 0
           /\ \A i \in DOMAIN R :
                /\ E[k + i].entity = <<R[i]>>
                /\ IF R[i].session_id \in held(k + i)
                   THEN E[k + i].call = UpdateCall(FrameAddr)
                   ELSE E[k + i].call = AddCall(FrameAddr)
                /\ R[i].session_id \in Keys(PostMap)
                /\ PostMap[IndexOf(PostMap, R[i].session_id)] = R[i]
           /\ SeqOfIds(PostMap) =
                  SeqOfIds(SelectSeq(PreMap, LAMBDA e : e.session_id \in FrameAlive))
                  \o [i \in DOMAIN added |-> added[i].entity[1].session_id]

\* an accepted frame replaced the entry of one session id by a record with
\* other params and inserted another session id
C7_Witness ==
    /\ EncoderOrder /\ FrameAccepted
    /\ Len(FrameSets) = 2
    /\ FrameSets[1].session_id \in Keys(PreMap) \cap FrameAlive
    /\ PreMap[IndexOf(PreMap, FrameSets[1].session_id)] # FrameSets[1]
    /\ FrameSets[2].session_id \notin Keys(PreMap)
    /\ Len(EntityEvents) = 2
    /\ IsUpdate(EntityEvents[1]) /\ IsNew(EntityEvents[2])
    /\ Len(PostMap) = 2

\* C8: while one frame is processed no session id is reported both in a New
\* and in a Remove.
C8_NotNewAndRemoved ==
    (IsBundle /\ FrameAccepted) => NewIds \cap Range(RemovedIds) = {}

\* C9: the calls of an accepted frame are its Removes, in the insertion order
\* of the displaced entries, and after them one New or Update per set message
\* of the bundle, in the order of the set messages.
C9_RemovesThenSets ==
    (IsBundle /\ FrameAccepted) =>
        /\ \A i, j \in DOMAIN events :
               (IsRemove(events[i]) /\ events[i].ids # <<>> /\ ~IsRemove(events[j]))
                   => i < j
        /\ RemovedIds =
               SeqOfIds(SelectSeq(PreMap, LAMBDA e : e.session_id \notin FrameAlive))
        /\ [i \in DOMAIN EntityEvents |-> EntityEvents[i].entity[1]] = FrameSets

\* C10: a bundle of source A leaves the maps of every other source as they
\* were, and each New it causes carries the source name A.
C10_SourcesIndependent ==
    (IsBundle /\ result = "Ok") =>
        /\ \A s \in DOMAIN pre.source_list \ {FrameSource} :
               client.source_list[s] = pre.source_list[s]
        /\ \A i \in DOMAIN events :
               IsNew(events[i]) =>
                   /\ "source_name" \in DOMAIN events[i].entity[1]
                   /\ events[i].entity[1].source_name = FrameSource

-----------------------------------------------------------------------------
(* Encoder, decoder and client together *)

(* the values an entity is encoded with: all of it but the time *)
Values(collection) ==
    [i \in DOMAIN collection |-> Entity(collection[i].session_id, collection[i].params)]

\* C11: when a fresh client has processed the cursor, object and blob bundles
\* the encoder builds for one source and a frame id >= 0 from entities stamped
\* with the frame time, every packet was processed without error and the
\* client's three maps of that source hold the encoded entities, in order.
C11_EncoderClientRoundTrip ==
    (trip.stage = 3) =>
        /\ \A i \in DOMAIN trip.results : trip.results[i] = "Ok"
        /\ \A addr \in Addresses :
               MapOf(client, trip.source, addr) = Values(trip.collection)

CodecDecoded == codec.stage = "decoded"

RoundTrip ==
    /\ codec.decoded.result = "Ok"
    /\ codec.decoded.source = codec.source_name
    /\ codec.decoded.fseq = codec.frame_id
    /\ codec.decoded.alive = SeqOfIds(codec.collection)
    /\ codec.decoded.set.records = Values(codec.collection)

\* C12 as stated: decoding the bundle encoded from any collection E with
\* (S, F) succeeds and yields source S, fseq F, the session ids of E in order
\* as alive, and set records equal to E element by element.
C12_CodecRoundTrip == CodecDecoded => RoundTrip

\* C12 amended: decoding the bundle encoded from any collection E with (S, F)
\* succeeds and yields source S, fseq F, the session ids of E in order as
\* alive, and set records equal, element by element, to the entities of E that
\* are set-encoded: all of E under the behaviour Full, those stamped with the
\* frame time under CurrentFrame.
C12_CodecRoundTripOfSetEntities ==
    CodecDecoded =>
        /\ codec.decoded.result = "Ok"
        /\ codec.decoded.source = codec.source_name
        /\ codec.decoded.fseq = codec.frame_id
        /\ codec.decoded.alive = SeqOfIds(codec.collection)
        /\ codec.decoded.set.records =
               Values(SelectSeq(codec.collection,
                                LAMBDA e : codec.behaviour = "Full"
                                           \/ e.time = codec.frame_time))
        /\ (codec.behaviour = "Full"
            \/ \A i \in DOMAIN codec.collection :
                   codec.collection[i].time = codec.frame_time) => RoundTrip

\* two entities, the first stamped with an earlier time and the second with
\* the frame time, were encoded with the behaviour CurrentFrame and decoded:
\* both are alive, the second one has a set record
C12_Witness ==
    /\ CodecDecoded
    /\ codec.behaviour = "CurrentFrame"
    /\ Len(codec.collection) = 2
    /\ codec.collection[1].session_id # codec.collection[2].session_id
    /\ codec.collection[1].time # codec.frame_time
    /\ codec.collection[2].time = codec.frame_time
    /\ Len(codec.decoded.alive) = 2
    /\ codec.decoded.set.records = Values(<<codec.collection[2]>>)

\* Shape of an encoded bundle of the profile addr for the session ids id_seq:
\* source, alive with id_seq, set messages, fseq, all at addr.
EncodedShape(b, addr, id_seq) ==
    /\ Len(b) >= 3
    /\ b[1].kind = "source"
    /\ b[2].kind = "alive" /\ b[2].alive = id_seq
    /\ b[Len(b)].kind = "fseq"
    /\ \A i \in 3..(Len(b) - 1) : b[i].kind = "set"
    /\ \A i \in DOMAIN b : b[i].addr = addr

(* the ids of a server map in the order their entities were inserted: ids
   are allocated increasing and an update leaves an entry in its place *)
RECURSIVE Ascending(_)
Ascending(ids) ==
    IF ids = {} THEN <<>>
    ELSE LET least == CHOOSE x \in ids : \A y \in ids : x <= y
         IN <<least>> \o Ascending(ids \ {least})

InsertionOrder(index_map) == Ascending(Keys(index_map))

(* the bundles of the last commit_frame or send_full_messages *)
Built ==
    IF served.call \in {"commit_frame", "send_full_messages"}
    THEN {served.sent[i].content : i \in DOMAIN served.sent}
    ELSE {}

\* C13: an encoded bundle consists of one source message, one alive message
\* with the session ids of all entities of the collection in insertion order
\* (also of those without a set message), zero or more set messages and one
\* fseq message last, all with the profile's address; so does a bundle the
\* server builds from one of its maps.
C13_BundleShape ==
    /\ (codec.stage \in {"encoded", "decoded"}) =>
            EncodedShape(codec.bundle, codec.addr, SeqOfIds(codec.collection))
    /\ \A b \in Built :
            EncodedShape(b, b[1].addr,
                         InsertionOrder(served.pre[MapField(b[1].addr)]))

(* the session ids of the set messages of a bundle, in order *)
SetIds(b) == SeqOfIds(SelectSeq(b, LAMBDA m : m.kind = "set"))

(* the map a bundle of the last call was built from *)
BuiltFrom(b) == served.pre[MapField(b[1].addr)]

(* the ids of the entities of a map whose last mutation happened in the frame
   the server was in *)
MutatedInFrame(index_map, sv) ==
    SeqOfIds(SelectSeq(index_map, LAMBDA e : e.frame = sv.last_frame_id))

\* C14: with full_update false a bundle of commit_frame has a set message
\* exactly for the live entities created or last updated in the current frame,
\* with full_update true it has one for every live entity.
C14_SelectionMode ==
    served.call = "commit_frame" =>
        \A b \in Built :
            SetIds(b) = IF served.pre.full_update
                        THEN SeqOfIds(BuiltFrom(b))
                        ELSE MutatedInFrame(BuiltFrom(b), served.pre)

\* commit_frame with full_update false built a bundle of a map with two
\* entities, one of them mutated in this frame and one in an earlier frame,
\* and the bundle has the set message of the first only
C14_Witness ==
    /\ served.call = "commit_frame"
    /\ ~served.pre.full_update
    /\ \E b \in Built :
        /\ Len(BuiltFrom(b)) = 2
        /\ Len(SetIds(b)) = 1
        /\ \E i \in 1..2 : BuiltFrom(b)[i].frame < served.pre.last_frame_id

\* C15: the session ids create_* returns are strictly increasing over all
\* three profiles, the first one is 0, none is returned twice, also after its
\* entity was removed, and every entity of a server map is stored under an id
\* that the create_* of its profile returned.
C15_SessionIds ==
    /\ served.returned # <<>> => served.returned[1].session_id = 0
    /\ \A i, j \in DOMAIN served.returned :
           i < j => served.returned[i].session_id < served.returned[j].session_id
    /\ \A addr \in Addresses : \A k \in DOMAIN server[MapField(addr)] :
           [addr |-> addr, session_id |-> server[MapField(addr)][k].session_id]
               \in Range(served.returned)

\* three ids were returned, to more than one profile; the entity of the first
\* was removed and the entity of the last is live
C15_Witness ==
    /\ Len(served.returned) = 3
    /\ served.returned[1].addr # served.returned[3].addr
    /\ \A addr \in Addresses : 0 \notin Keys(server[MapField(addr)])
    /\ \E addr \in Addresses : 2 \in Keys(server[MapField(addr)])

\* C16: the fseq of the bundles of commit_frame and send_full_messages is
\* the number of init_frame calls so far, so it grows by one per init_frame
\* and is the same for all bundles between two init_frame calls; it is not
\* less than the fseq of the bundle emitted before, and it is never -1.
C16_Fseq ==
    \A b \in Built :
        /\ b[Len(b)].kind = "fseq"
        /\ b[Len(b)].fseq = served.inits
        /\ b[Len(b)].fseq >= served.fseq_before
        /\ b[Len(b)].fseq # -1

\* commit_frame emitted two bundles in the second frame after bundles were
\* emitted in the first frame
C16_Witness ==
    /\ served.call = "commit_frame"
    /\ Cardinality(Built) >= 2
    /\ served.inits = 2
    /\ served.fseq_before = 1
    /\ served.fseq_last = 2

(* whether periodic messaging was on for the profile and the interval had
   passed since commit_frame last emitted it *)
PeriodicDue(addr) ==
    /\ served.pre.periodic_messaging
    /\ served.pre[ProfilingField(addr)]
    /\ served.pre.current_frame_time - served.emitted_before[addr]
           >= served.pre.update_interval

\* C17: commit_frame emits a bundle for a profile, to every sender, exactly
\* when the profile was mutated since commit_frame last emitted it or periodic
\* messaging is on for the profile and the interval has passed since then,
\* each profile on its own; afterwards no profile is dirty.
C17_CommitFrame ==
    served.call = "commit_frame" =>
        /\ \A addr \in Addresses :
               addr \in Emitted(served.sent)
                   <=> (addr \in served.mutated_before \/ PeriodicDue(addr))
        /\ Len(served.sent) = Cardinality(Emitted(served.sent)) * served.pre.sender_list
        /\ \A addr \in Addresses : ~server[UpdatedField(addr)]

\* commit_frame emitted the objects because they were mutated, the blobs
\* because their interval had passed, and not the cursors, whose profiling
\* was off
C17_Witness ==
    /\ served.call = "commit_frame"
    /\ Emitted(served.sent) = {"/tuio/2Dobj", "/tuio/2Dblb"}
    /\ served.mutated_before = {"/tuio/2Dobj"}
    /\ PeriodicDue("/tuio/2Dblb")
    /\ ~served.pre.cursor_profiling

\* C18: send_full_messages emits one bundle for each of the three profiles,
\* to every sender, each with a set message for every live entity of the
\* profile, whatever the dirty flags and full_update are, and leaves the
\* server as it was: maps, dirty flags, frame counter and periodic timers.
C18_SendFullMessages ==
    served.call = "send_full_messages" =>
        /\ Emitted(served.sent) = Addresses
        /\ Len(served.sent) = 3 * served.pre.sender_list
        /\ \A b \in Built : SetIds(b) = SeqOfIds(BuiltFrom(b))
        /\ server = served.pre
        /\ served.mutated = served.mutated_before
        /\ served.emitted_at = served.emitted_before

\* send_full_messages was called with full_update false on a server whose
\* cursors were not dirty, and the cursor bundle has the set message of an
\* entity that was not mutated in the current frame
C18_Witness ==
    /\ served.call = "send_full_messages"
    /\ ~served.pre.full_update
    /\ ~served.pre.cursor_updated
    /\ served.pre.object_updated
    /\ \E b \in Built :
        /\ b[1].addr = "/tuio/2Dcur"
        /\ SetIds(b) # <<>>
        /\ BuiltFrom(b)[1].frame < served.pre.last_frame_id

\* C19: with periodic messaging on, a bundle that commit_frame emits for a
\* profile whose interval has passed has a set message for every live entity
\* of the profile, also for those not mutated in the current frame.
C19_PeriodicFullUpdate ==
    served.call = "commit_frame" =>
        \A b \in Built :
            PeriodicDue(b[1].addr) => SetIds(b) = SeqOfIds(BuiltFrom(b))

(* what was delivered to one sender, in order *)
DeliveredTo(sender) ==
    LET to == SelectSeq(served.sent, LAMBDA d : d.sender = sender)
    IN [i \in DOMAIN to |-> to[i].content]

(* a bundle of a source message, an alive message with no ids and fseq -1 *)
IsGoodbye(b, addr) ==
    /\ Len(b) = 3
    /\ \A i \in 1..3 : b[i].addr = addr
    /\ b[1].kind = "source" /\ b[1].name = served.pre.source_name
    /\ b[2].kind = "alive" /\ b[2].ids = {}
    /\ b[3].kind = "fseq" /\ b[3].fseq = -1

C21_UpdateBlob ==
    served.call = "update_blob" =>
        /\ ~server.panicked
        /\ server.blob_updated
        /\ Keys(server.blob_map) = Keys(served.pre.blob_map)
        /\ \E k \in DOMAIN server.blob_map :
               /\ server.blob_map[k].params = "q"
               /\ server.blob_map[k].time = server.current_frame_time

(* the position of the entity the last update was made on *)
PositionOf(kind, entity) ==
    IF kind = "cursor" THEN entity.path[Len(entity.path)] ELSE entity.position

(* what an update over dt milliseconds has to derive from the sample before:
   velocity, acceleration and, for an object, rotation speed and rotation
   acceleration *)
DerivedMotion ==
    LET dt == motion.input.time - motion.before.time
        dx == motion.input.position.x - PositionOf(motion.kind, motion.before).x
        dy == motion.input.position.y - PositionOf(motion.kind, motion.before).y
        previous_speed == sqrt(motion.before.velocity.x * motion.before.velocity.x
                               + motion.before.velocity.y * motion.before.velocity.y)
    IN /\ motion.entity.velocity = [x |-> Quot(dx * Unit, dt), y |-> Quot(dy * Unit, dt)]
       /\ motion.entity.acceleration =
              Quot((Quot(sqrt(dx * dx + dy * dy) * Unit, dt) - previous_speed) * Unit, dt)
       /\ motion.kind = "object" =>
           /\ motion.entity.rotation_speed =
                  Quot(Quot((motion.input.angle - motion.before.angle) * Unit, TwoPi)
                       * Unit, dt)
           /\ motion.entity.rotation_acceleration =
                  Quot((motion.entity.rotation_speed - motion.before.rotation_speed)
                       * Unit, dt)

(* the entity was at rest at (0, 0), angle 0, and is updated one second later
   to (1, 1), angle 90 degrees *)
FromRest ==
    /\ motion.before.time = 0 /\ motion.input.time = Unit
    /\ PositionOf(motion.kind, motion.before) = [x |-> 0, y |-> 0]
    /\ motion.input.position = [x |-> Unit, y |-> Unit]
    /\ motion.kind = "object" => motion.before.angle = 0 /\ motion.input.angle = 1571

\* C22: an update at a later time derives velocity, acceleration, rotation
\* speed and rotation acceleration from the sample before and stores the new
\* position, angle and time; from rest, (0,0,0) -> (1,1,90 degrees) over one
\* second gives velocity (1,1), acceleration sqrt 2, rotation speed 0.25 and
\* rotation acceleration 0.25.
C22_Kinematics ==
    motion.stage = "updated" =>
        /\ DerivedMotion
        /\ PositionOf(motion.kind, motion.entity) = motion.input.position
        /\ motion.entity.time = motion.input.time
        /\ motion.kind = "object" => motion.entity.angle = motion.input.angle
        /\ FromRest =>
            /\ motion.entity.velocity = [x |-> 1000, y |-> 1000]
            /\ motion.entity.acceleration = 1414
            /\ motion.kind = "object" =>
                   /\ motion.entity.rotation_speed = 250
                   /\ motion.entity.rotation_acceleration = 250

(* C23: decoder errors are per packet. When processing a packet ends in a
   decoder error, the packet is discarded as a whole: the entity maps, the
   current source, current_frame and the pending set records are as they were
   before the packet. *)
C23_PacketDiscarded ==
    result \notin {"Ok", "panic"} => client = pre

(* C24: a top-level packet that is a bare message is answered with NotABundle
   and changes no client state. *)
C24_NotABundle ==
    packet.kind = "message" => result = "NotABundleError" /\ client = pre

(* the state of processing the packet just before its i-th message *)
Before(i) == process_bundle(Start(pre), SubSeq(packet.content, 1, i - 1))

(* C25: a "set" message the client reaches is accepted (its record joins the
   pending records) exactly when its argument count is the one of its profile,
   7, 11 or 13, and its arguments have the schema's types; any other count
   yields MissingArguments and a wrongly typed argument WrongArgumentType. *)
C25_SetArguments ==
    \A i \in DOMAIN packet.content :
        LET message == packet.content[i]
            after == process_osc_message(Before(i), message)
        IN (packet.kind = "bundle" /\ message.kind = "set" /\ Before(i).result = "Ok") =>
               IF message.len # EncodedSetLen(message.addr)
               THEN after.result = "MissingArgumentsError"
               ELSE IF message.bad # 0
               THEN after.result = "WrongArgumentTypeError"
               ELSE /\ after.result = "Ok"
                    /\ after.client[PendingField(message.addr)] =
                           Append(Before(i).client[PendingField(message.addr)],
                                  Entity(message.session_id, message.params))

(* the bundle the encoder built of the collection of codec, in its own order *)
InOrder ==
    encode_bundle(codec.addr, codec.collection, codec.source_name,
                  codec.frame_time, codec.frame_id, codec.behaviour)

(* the records of the "set" messages of a bundle, in the order of the messages *)
RECURSIVE SetRecords(_)
SetRecords(content) ==
    IF content = <<>>
    THEN <<>>
    ELSE IF Head(content).kind = "set"
    THEN <<Entity(Head(content).session_id, Head(content).params)>>
             \o SetRecords(Tail(content))
    ELSE SetRecords(Tail(content))

(* C26: the decoder is order-tolerant. Every permutation of the messages of a
   well-formed bundle decodes without error to the profile type, source, alive
   list and fseq of the bundle in the encoder's order, and to the set records
   in the order of their messages. *)
C26_OrderTolerant ==
    (codec.stage = "permuted" /\ decode_bundle(InOrder).result = "Ok") =>
        /\ codec.decoded.result = "Ok"
        /\ codec.decoded.tuio_type = decode_bundle(InOrder).tuio_type
        /\ codec.decoded.source = decode_bundle(InOrder).source
        /\ codec.decoded.alive = decode_bundle(InOrder).alive
        /\ codec.decoded.fseq = decode_bundle(InOrder).fseq
        /\ codec.decoded.set.kind = decode_bundle(InOrder).set.kind
        /\ codec.decoded.set.records = SetRecords(codec.bundle)

(* C27: connect() called while the receiver is already connected returns
   AlreadyConnected and starts no further ingestion task; at most one
   ingestion task of a receiver is running at any time. *)
C27_AlreadyConnected ==
    /\ (receiver.call = "connect" /\ receiver.listened) =>
           /\ receiver.returned = "AlreadyConnected"
           /\ Cardinality(Running(receiver)) = receiver.running
    /\ Cardinality(Running(receiver)) <= 1

(* the packets of a sequence are in arrival order *)
InArrivalOrder(packets) ==
    \A i, j \in DOMAIN packets : i < j => packets[i] < packets[j]

(* the last n elements of a sequence, all of them when it has fewer *)
Last(packets, n) ==
    IF Len(packets) <= n
    THEN packets
    ELSE SubSeq(packets, Len(packets) - n + 1, Len(packets))

(* the packets pushed since the last receive() *)
Undrained == SubSeq(receiver.pushed, Len(receiver.got) + 1, Len(receiver.pushed))

(* C28: the ring holds at most 128 packets, and a push into a full ring drops
   the oldest: the ring always holds the most recently received packets, up
   to 128 of them, in arrival order. *)
C28_Ring ==
    Len(receiver.tasks) = 1 =>
        /\ Len(receiver.packet_buffer) <= 128
        /\ InArrivalOrder(receiver.packet_buffer)
        /\ receiver.packet_buffer = Last(Undrained, 128)

(* C29: receive() returns all packets received since the previous receive()
   in arrival order and leaves the ring empty: in every interleaving the
   packets returned so far, followed by the ring, are the packets pushed, in
   arrival order, none twice and none missing. *)
C29_Receive ==
    /\ receiver.got \o receiver.packet_buffer = receiver.pushed
    /\ InArrivalOrder(receiver.pushed)
    /\ receiver.call = "receive" => receiver.packet_buffer = <<>>

(* C30: once disconnect() has returned, no ingestion task of the receiver is
   running and no packet is pushed into the ring any more. *)
C30_Disconnect ==
    receiver.stopped =>
        /\ Running(receiver) = {}
        /\ ~receiver.late

(* C31: a failing sender never aborts the server. A send or encoding failure
   during commit_frame or send_full_messages is reported to the caller and
   the server stays usable; a send failure while the shutdown bundles are
   emitted is ignored. *)
C31_FailingSender ==
    served.call \in Delivering => ~server.panicked

(* C32: frame arbitration keeps one current_frame for the whole client. Each
   fseq is judged against the current_frame the packets before it left,
   whatever their source and profile: it is accepted exactly when it is
   positive and not behind current_frame, or behind by more than the restart
   jump. A late frame of a source the client has not seen is rejected. *)
C32_OneCurrentFrame ==
    \A i \in DOMAIN arbitration :
        LET a == arbitration[i] IN
        /\ a.before = IF i = 1 THEN pre.current_frame ELSE arbitration[i - 1].after
        /\ a.accepted <=> /\ a.frame > 0
                          /\ \/ a.frame >= a.before
                             \/ a.before - a.frame > RestartJump
        /\ client.current_frame = arbitration[Len(arbitration)].after

(* source A was accepted at frame 2 and nothing of source B had arrived; the
   frame 1 of B was rejected as late *)
C32_Witness ==
    /\ IsBundle
    /\ FrameSource = "B"
    /\ DOMAIN pre.source_list = {"A"}
    /\ pre.current_frame = 2
    /\ FrameRejected
    /\ arbitration[1].frame = 1
    /\ client.current_frame = 2

(* the last frame was behind current_frame by no more than the restart jump *)
LateFrame ==
    /\ 0 <= timing.frame
    /\ timing.frame < timing.before.current_frame
    /\ timing.before.current_frame - timing.frame <= RestartJump

(* C33: current_time is set to the elapsed time when a frame with
   fseq > current_frame is accepted and when a restart frame is accepted, is
   left as it was when fseq = current_frame, and at the rejection of a late
   frame is refreshed exactly when more than 100 ms have passed since
   current_time. *)
C33_CurrentTime ==
    timing.stage = "frame" =>
        /\ (timing.accepted /\ timing.frame > timing.before.current_frame)
               => timing.current_time = timing.now
        /\ (timing.accepted
            /\ timing.before.current_frame - timing.frame > RestartJump)
               => timing.current_time = timing.now
        /\ timing.frame = timing.before.current_frame
               => timing.current_time = timing.before.current_time
        /\ (~timing.accepted /\ LateFrame)
               => timing.current_time =
                      IF timing.now - timing.before.current_time > 100
                      THEN timing.now
                      ELSE timing.before.current_time

(* the session ids of the alive message of a bundle *)
AliveIds(b) == UNION {b[j].ids : j \in {k \in DOMAIN b : b[k].kind = "alive"}}

(* C34: every session id the server lists in an alive message has been
   described by a set message of that bundle or of an earlier one; an entity
   is set-emitted by the first commit_frame after its creation, also when
   init_frame is called in between. *)
C34_AliveDescribed ==
    \A b \in Built : AliveIds(b) \subseteq described

(* C35: the set records of a frame that arbitration rejects, or of a packet
   that ends in an error, are dropped. No pending record is left after such a
   packet, and an accepted frame applies the set records of its own packet
   only: each New or Update it causes carries a record of this packet. *)
C35_RejectedSetsDropped ==
    /\ (IsBundle /\ (FrameRejected \/ result \notin {"Ok", "panic"})) =>
           /\ client.frame_objects = <<>>
           /\ client.frame_cursors = <<>>
           /\ client.frame_blobs = <<>>
    /\ (IsBundle /\ FrameAccepted) =>
           [i \in DOMAIN EntityEvents |->
               Entity(EntityEvents[i].entity[1].session_id,
                      EntityEvents[i].entity[1].params)] = FrameSets

(* C36: processing a packet never aborts the client. An alive or fseq message
   that arrives before any source message, on a fresh client or in a bundle
   without a source message, ends in an error value or is ignored. *)
C36_NeverPanics ==
    packet.kind \in {"bundle", "message"} => result # "panic"

(* C37: after disconnect() followed by connect() exactly one ingestion task
   is running. The task of the earlier connect() has ended, or ends without
   pushing another packet, also when it was blocked in recv_from when
   disconnect() was called. *)
C37_Reconnect ==
    /\ ~receiver.stale_pushed
    /\ \A t \in receiver.stale : receiver.tasks[t].pc # "push"


(* C38: an update of an entity at the time it already carries, that is in
   the frame in which it was created or already updated, has a delta_time of
   0; the claim is that the derivation is then skipped or clamped, so that the
   stored velocity and acceleration are finite. *)
SameFrameUpdate ==
    /\ motion.stage = "updated"
    /\ "current_frame_time" \in DOMAIN motion
    /\ motion.input.time = motion.before.time

C38_FiniteInFrame ==
    SameFrameUpdate =>
        /\ is_finite(motion.entity.velocity.x)
        /\ is_finite(motion.entity.velocity.y)
        /\ is_finite(motion.entity.acceleration)

(* C39: an undecodable datagram does not stop the ingestion: while the
   receiver is connected its thread keeps running, and a well-formed datagram
   the thread has taken from the socket is pushed or about to be pushed. *)
Decodable == (1..receiver.taken) \ receiver.undecodable

Pushing == {receiver.tasks[t].packet : t \in Running(receiver)}

C39_KeepsIngesting ==
    (receiver.listen /\ receiver.tasks # <<>>) =>
        /\ Running(receiver) # {}
        /\ \A p \in Decodable : p \in Pushing \/ \E i \in DOMAIN receiver.pushed : receiver.pushed[i] = p

(* C40: the equality of Cursor, Object and Blob is an equivalence over the
   reported fields: an entity equals itself, a == b exactly when the fields
   of a and b are pairwise equal, and a == b implies b == a. *)
C40_Equivalence ==
    compared.stage = "compared" =>
        /\ compared.a_eq_a
        /\ compared.a_eq_b <=> (compared.a = compared.b)
        /\ compared.a_eq_b => compared.b_eq_a

====
